---------------------------- MODULE Spec2Model ----------------------------
(***************************************************************************)
(* Model of themekit's file manifest (the version ledger kept in           *)
(* theme.lock), of the replace and upload commands and of the validation   *)
(* of an environment.                                                      *)
(*                                                                         *)
(* Encoding of strings that are version tokens: the integer k >= 1 is the  *)
(* RFC3339 text of the instant k, 0 is the empty string (what a Go map     *)
(* yields for a missing key) and a negative integer is a text that is not  *)
(* RFC3339.  A Go map is a function whose DOMAIN is its key set.           *)
(***************************************************************************)
EXTENDS Integers, Sequences, FiniteSets, TLC

(* ------------------------------ bounds -------------------------------- *)
\* version tokens that parse are the instants 1..MaxTime
MaxTime == 2
\* manifest operations (Set, Delete) started after construction
MaxOps == 2
\* filenames given to a command
MaxArgs == 2

Files == {"a.liquid", "x.liquid"}
\* the configured environments: one kit.ThemeClient each
Clients == {"dev", "prod"}
\* environments that theme.lock may still name from an earlier configuration
StoredEnvs == Clients \cup {"old"}
Junk == 0 - 1
Times == 1..MaxTime
SetValues == Times \cup {Junk}

(* --------------------------- Go maps ---------------------------------- *)
EmptyMap == [k \in {} |-> 0]
MapPut(m, k, v) == [x \in (DOMAIN m) \cup {k} |-> IF x = k THEN v ELSE m[x]]
MapDel(m, k) == [x \in (DOMAIN m) \ {k} |-> m[x]]
\* m[k] of a map[string]string: "" when k is missing (also when m is nil)
MapStr(m, k) == IF k \in DOMAIN m THEN m[k] ELSE 0
\* m[k] of a map[string]map[string]string: the nil map when k is missing
MapMap(m, k) == IF k \in DOMAIN m THEN m[k] ELSE EmptyMap
\* every map from a subset of keys to vals
PartialMaps(keys, vals) == UNION {[d -> vals] : d \in SUBSET keys}

(* ----------------------------- state ---------------------------------- *)
VARIABLES
  store,    \* contents of theme.lock: filename -> environment -> token
  local,    \* fileManifest.local
  remote,   \* fileManifest.remote
  phase,    \* position of newFileManifest, then "ready"; "failed" on error
  queried,  \* environments whose AssetList query has finished
  groupErr, \* errgroup's first error: "" or the environment that failed first
  stat,     \* what os.Stat answered in prune: filename -> clients with a regular file
  pc,       \* per pipeline worker: "idle", or "deleting" inside Delete
  cur,      \* per pipeline worker: the filename of the Delete in progress
  ret,      \* the manifest operation that returned last
  pre,      \* store, local and remote when the last operation was called
  fresh,    \* (f, e) -> value of a Set that returned nil, no Set/Delete on (f, e) since
  nops,     \* operations started so far
  \* ---- a run of the replace or of the upload command ----
  args,     \* the filenames given on the command line
  cfg,      \* the environment initializeConfig is validating: name, initial, overrides
  envErr,   \* the messages validate collected for cfg
  loaded,   \* themeClients: the environments validated so far
  main,     \* position of RunE
  wg,       \* the sync.WaitGroup counter
  gpc,      \* per environment: position of its replace / upload goroutine
  seen,     \* per environment: what the gateway answered (assets listed, files read)
  assetsActions, \* per environment: replace's map filename -> event type
  jobQueue, \* per environment: "nil", "open" or "closed"
  worker,   \* per environment: the worker of Process: "none", "ready", "busy", "exited"
  job,      \* per environment: the events the worker has received, last one being performed
  sent,     \* per environment: bag of the events sent on jobQueue
  processed, \* per environment: bag of the events the worker has performed
  pending,  \* per environment: bag of the assets handed to a performUpload still to run
  updated,  \* per environment: bag of <<asset, outcome>> of the UpdateAsset calls made
  logged,   \* per environment: the errors reported with kit.LogError / LogErrorf
  \* ---- a query of the manifest ----
  out,      \* the call that returned last and its result
  \* ---- the manifest operations statement by statement ----
  mutex,    \* manifest.mutex: "" when free, else the flow that holds it
  call,     \* per flow: the operation it is executing and its arguments
  justRet,  \* the flow and the operation that returned in the last step, if any
  \* ---- history of generateRemote ----
  completed, \* the AssetList queries in the order they finished, with their answers
  \* ---- the pipeline of Replace that removes and uploads each asset ----
  assetsTodo,   \* the assets the producer of the assets channel has still to send
  assetsClosed, \* the assets channel is closed
  rpc,          \* position of removeAndUpload
  asset,        \* the asset removeAndUpload received last
  received,     \* the assets removeAndUpload has received, in order
  assetEvents,  \* the events sent on the assetEvents channel, in order
  eventsClosed  \* the assetEvents channel is closed

mvars == <<store, local, remote, phase, queried, groupErr, stat, pc, cur, ret,
           pre, fresh, nops>>

uvars == <<pending, updated, logged>>

cvars == <<args, cfg, envErr, loaded, main, wg, gpc, seen, assetsActions,
           jobQueue, worker, job, sent, processed, uvars>>

qvars == <<out>>

fvars == <<mutex, call, justRet>>

lvars == <<completed>>

rvars == <<assetsTodo, assetsClosed, rpc, asset, received, assetEvents, eventsClosed>>

xvars == <<qvars, fvars, lvars, rvars>>

vars == <<mvars, cvars, xvars>>

PerEnv(x) == [e \in Clients |-> x]
EmptyBag == [x \in {} |-> 0]
NoCfg == [name |-> "", initial |-> EmptyMap, overrides |-> <<>>]
NoSeen == [remote |-> {}, local |-> {}, status |-> EmptyMap, failed |-> ""]
\* no query has returned
NoOut == [op |-> "none"]
NoQuery == out = NoOut
\* no operation is being executed statement by statement
NoJustRet == [e |-> "", op |-> "", err |-> FALSE]
NoCall == [op |-> "none", f |-> "", v |-> 0, raced |-> FALSE]
NoFlows ==
  /\ mutex = ""
  /\ call = PerEnv(NoCall)
  /\ justRet = NoJustRet
\* removeAndUpload is not running
NoRemoveAndUpload ==
  /\ assetsTodo = <<>> /\ assetsClosed = FALSE
  /\ rpc = "none" /\ asset = ""
  /\ received = <<>> /\ assetEvents = <<>> /\ eventsClosed = FALSE
NoOthers == NoQuery /\ NoFlows /\ completed = <<>> /\ NoRemoveAndUpload
\* no upload has been started, nothing has been reported
NoUpload ==
  /\ pending = PerEnv(EmptyBag)
  /\ updated = PerEnv(EmptyBag)
  /\ logged = PerEnv({})
\* neither replace nor upload has been started
NoRun ==
  /\ args = <<>>
  /\ cfg = NoCfg
  /\ envErr = <<>>
  /\ loaded = {}
  /\ main = "none"
  /\ wg = 0
  /\ gpc = PerEnv("none")
  /\ seen = PerEnv(NoSeen)
  /\ assetsActions = PerEnv(EmptyMap)
  /\ jobQueue = PerEnv("nil")
  /\ worker = PerEnv("none")
  /\ job = PerEnv(<<>>)
  /\ sent = PerEnv(EmptyBag)
  /\ processed = PerEnv(EmptyBag)
  /\ NoUpload
\* no command is running: the state of the command variables in the
\* specifications of the manifest
NoCommand == NoRun /\ NoOthers

NoRet == [op |-> "none", f |-> "", e |-> "", v |-> 0, err |-> FALSE]
Snapshot == [store |-> store, local |-> local, remote |-> remote]
NoFresh == [f \in Files |-> [e \in Clients |-> 0]]

(* ------------------- ystore: the durable store ------------------------ *)
\* YStore.Read: <<value, error>>
StoreRead(st, c, k) ==
  IF c \notin DOMAIN st THEN <<0, "ErrorCollectionNotFound">>
  ELSE IF k \notin DOMAIN st[c] THEN <<0, "ErrorKeyNotFound">>
  ELSE <<st[c][k], "nil">>

\* Batch.Commit of the staged writes, a set of <<collection, key, value>>
BatchCommit(st, writes) ==
  LET cols == (DOMAIN st) \cup {w[1] : w \in writes}
      keysOf(c) == (DOMAIN MapMap(st, c)) \cup {w[2] : w \in {x \in writes : x[1] = c}}
      valOf(c, k) == IF \E w \in writes : w[1] = c /\ w[2] = k
                     THEN (CHOOSE w \in writes : w[1] = c /\ w[2] = k)[3]
                     ELSE st[c][k]
  IN [c \in cols |-> [k \in keysOf(c) |-> valOf(c, k)]]

\* YStore.Delete: removes one entry
StoreDelete(st, c, k) ==
  IF c \in DOMAIN st THEN [st EXCEPT ![c] = MapDel(st[c], k)] ELSE st

\* YStore.DeleteCollection: removes every entry of a file
StoreDeleteCollection(st, c) == MapDel(st, c)

\* YStore.Dump: the full snapshot
StoreDump(st) == st

(* ------------------- fileManifest: construction ----------------------- *)
\* the remote map after one AssetList answer was merged (the loop of lines 65-72)
MergeListing(rem, env, assets) ==
  [f \in (DOMAIN rem) \cup (DOMAIN assets) |->
     IF f \in DOMAIN assets THEN MapPut(MapMap(rem, f), env, assets[f])
     ELSE rem[f]]

\* remote once every client's AssetList answer is merged
RemoteOf(listings) ==
  [f \in UNION {DOMAIN listings[c] : c \in Clients} |->
     [e \in {c \in Clients : f \in DOMAIN listings[c]} |-> listings[e][f]]]

\* backfillLocal without the hasLocal test: stored tokens are overwritten
BackfillWritesOverwrite(loc, rem) ==
  {<<p[1], p[2], rem[p[1]][p[2]]>> :
     p \in {q \in (DOMAIN rem) \X StoredEnvs :
              /\ q[1] \in DOMAIN loc
              /\ q[2] \in DOMAIN rem[q[1]]}}

\* the writes backfillLocal stages: <<filename, env, version>>
BackfillWrites(loc, rem) ==
  {<<p[1], p[2], rem[p[1]][p[2]]>> :
     p \in {q \in (DOMAIN rem) \X StoredEnvs :
              /\ q[1] \in DOMAIN loc
              /\ q[2] \in DOMAIN rem[q[1]]
              /\ q[2] \notin DOMAIN loc[q[1]]}}

\* the filenames prune asks the filesystem about
StatFiles(loc, rem) == {f \in DOMAIN loc : f \notin DOMAIN rem}

\* indexOf(len(clients), pred) == -1, matching being the clients that satisfy pred
indexOfNone(matching) == ~\E c \in Clients : c \in matching

\* first pass of prune without the os.Stat test
PruneCollectionsNoStat(loc, rem, fs) == StatFiles(loc, rem)

\* first pass of prune: the collections it deletes
PruneCollections(loc, rem, fs) ==
  {f \in StatFiles(loc, rem) : indexOfNone(fs[f])}

\* second pass of prune: the entries it deletes
PruneEntries(loc) ==
  {p \in (DOMAIN loc) \X StoredEnvs :
     /\ p[2] \in DOMAIN loc[p[1]]
     /\ indexOfNone({c \in Clients : c = p[2]})}

RECURSIVE DeleteCollections(_, _)
DeleteCollections(st, cs) ==
  IF cs = {} THEN st
  ELSE LET c == CHOOSE x \in cs : TRUE
       IN DeleteCollections(StoreDeleteCollection(st, c), cs \ {c})

RECURSIVE DeleteEntries(_, _)
DeleteEntries(st, ps) ==
  IF ps = {} THEN st
  ELSE LET p == CHOOSE x \in ps : TRUE
       IN DeleteEntries(StoreDelete(st, p[1], p[2]), ps \ {p})

\* the store once both passes of prune succeeded
PruneStore(st, loc, rem, fs) ==
  DeleteEntries(DeleteCollections(st, PruneCollections(loc, rem, fs)),
                PruneEntries(loc))

Listings == PartialMaps(Files, Times)
InitStores == PartialMaps(Files, PartialMaps(StoredEnvs, Times))

NewFileManifest ==
  /\ phase = "new"
  /\ local' = StoreDump(store)
  /\ remote' = EmptyMap
  /\ phase' = "listing"
  /\ UNCHANGED <<store, queried, groupErr, stat, pc, cur, ret, pre, fresh, nops>>
  /\ UNCHANGED <<cvars, xvars>>

\* one goroutine of generateRemote whose AssetList call succeeds
AssetListMergedBody(c, assets) ==
  /\ phase = "listing"
  /\ c \notin queried
  /\ remote' = MergeListing(remote, c, assets)
  /\ queried' = queried \cup {c}
  /\ UNCHANGED <<store, local, phase, groupErr, stat, pc, cur, ret, pre, fresh, nops>>
  /\ UNCHANGED <<cvars, qvars, fvars, rvars>>

AssetListMerged(c, assets) ==
  /\ AssetListMergedBody(c, assets)
  /\ UNCHANGED completed

\* an errgroup.Group that would keep the last error
groupErrLastWins(c) == c

\* errgroup.Group keeps the first error a goroutine returns
groupErrAfter(c) == IF groupErr = "" THEN c ELSE groupErr

\* one goroutine of generateRemote whose AssetList call fails
AssetListFailedBody(c) ==
  /\ phase = "listing"
  /\ c \notin queried
  /\ groupErr' = groupErrAfter(c)
  /\ queried' = queried \cup {c}
  /\ UNCHANGED <<store, local, remote, phase, stat, pc, cur, ret, pre, fresh, nops>>
  /\ UNCHANGED <<cvars, qvars, fvars, rvars>>

AssetListFailed(c) ==
  /\ AssetListFailedBody(c)
  /\ UNCHANGED completed

\* requestGroup.Wait() returns an error: newFileManifest returns it
generateRemoteFailed ==
  /\ phase = "listing"
  /\ queried = Clients
  /\ groupErr # ""
  /\ phase' = "failed"
  /\ ret' = [NoRet EXCEPT !.op = "generateRemote", !.err = TRUE]
  /\ UNCHANGED <<store, local, remote, queried, groupErr, stat, pc, cur, pre, fresh, nops>>
  /\ UNCHANGED <<cvars, xvars>>

backfillLocal ==
  /\ phase = "listing"
  /\ queried = Clients
  /\ groupErr = ""
  /\ pre' = Snapshot
  /\ \E ok \in BOOLEAN :
       IF ok
       THEN /\ store' = BatchCommit(store, BackfillWrites(local, remote))
            /\ local' = StoreDump(store')
            /\ phase' = "backfilled"
            /\ ret' = [NoRet EXCEPT !.op = "backfillLocal"]
       ELSE /\ phase' = "failed"
            /\ ret' = [NoRet EXCEPT !.op = "backfillLocal", !.err = TRUE]
            /\ UNCHANGED <<store, local>>
  /\ UNCHANGED <<remote, queried, groupErr, stat, pc, cur, fresh, nops>>
  /\ UNCHANGED <<cvars, xvars>>

\* prune, fs being what os.Stat answers for the filenames it asks about;
\* failAt names the store call that fails, if any
prune(fs, failAt) ==
  /\ phase = "backfilled"
  /\ pre' = Snapshot
  /\ stat' = fs
  /\ CASE failAt = "none" ->
            /\ store' = PruneStore(store, local, remote, fs)
            /\ local' = StoreDump(store')
            /\ phase' = "ready"
            /\ ret' = [NoRet EXCEPT !.op = "prune"]
       [] failAt = "DeleteCollection" ->
            /\ PruneCollections(local, remote, fs) # {}
            /\ phase' = "failed"
            /\ ret' = [NoRet EXCEPT !.op = "prune", !.err = TRUE]
            /\ UNCHANGED <<store, local>>
       [] failAt = "Delete" ->
            /\ PruneEntries(local) # {}
            /\ store' = DeleteCollections(store, PruneCollections(local, remote, fs))
            /\ phase' = "failed"
            /\ ret' = [NoRet EXCEPT !.op = "prune", !.err = TRUE]
            /\ UNCHANGED local
  /\ UNCHANGED <<remote, queried, groupErr, pc, cur, fresh, nops>>
  /\ UNCHANGED <<cvars, xvars>>

InitBuild ==
  /\ store \in InitStores
  /\ local = EmptyMap
  /\ remote = EmptyMap
  /\ phase = "new"
  /\ queried = {}
  /\ groupErr = ""
  /\ stat = EmptyMap
  /\ pc = [w \in Clients |-> "idle"]
  /\ cur = [w \in Clients |-> ""]
  /\ ret = NoRet
  /\ pre = [store |-> EmptyMap, local |-> EmptyMap, remote |-> EmptyMap]
  /\ fresh = NoFresh
  /\ nops = 0
  /\ NoCommand

NextBuild ==
  \/ NewFileManifest
  \/ \E c \in Clients, assets \in Listings : AssetListMerged(c, assets)
  \/ \E c \in Clients : AssetListFailed(c)
  \/ generateRemoteFailed
  \/ backfillLocal
  \/ \E fs \in [StatFiles(local, remote) -> SUBSET Clients],
        failAt \in {"none", "DeleteCollection", "Delete"} : prune(fs, failAt)

SpecBuild == InitBuild /\ [][NextBuild]_vars

\* generateRemote, the order in which the queries finish kept in completed
AssetListMergedRecorded(c, assets) ==
  /\ AssetListMergedBody(c, assets)
  /\ completed' = Append(completed, [c |-> c, ok |-> TRUE, assets |-> assets])

AssetListFailedRecorded(c) ==
  /\ AssetListFailedBody(c)
  /\ completed' = Append(completed, [c |-> c, ok |-> FALSE, assets |-> EmptyMap])

NextGenerateRemote ==
  \/ NewFileManifest
  \/ \E c \in Clients, assets \in Listings : AssetListMergedRecorded(c, assets)
  \/ \E c \in Clients : AssetListFailedRecorded(c)
  \/ generateRemoteFailed
  \/ backfillLocal

SpecGenerateRemote == InitBuild /\ [][NextGenerateRemote]_vars

(* ------------------- fileManifest: decisions -------------------------- *)
\* time.Parse(time.RFC3339, t), the error dropped: the zero time.Time is 0
parseTime(t) == IF t \in Times THEN t ELSE 0

IsZero(t) == t = 0
Before(t, u) == t < u

\* <<local, remote>> of diffDates(filename, dstEnv, srcEnv)
diffDates(filename, dstEnv, srcEnv) ==
  <<IF filename \in DOMAIN local
    THEN parseTime(MapStr(local[filename], srcEnv)) ELSE 0,
    IF filename \in DOMAIN remote
    THEN parseTime(MapStr(remote[filename], dstEnv)) ELSE 0>>

NeedsDownloading(filename, environment) ==
  LET d == diffDates(filename, environment, environment)
  IN Before(d[1], d[2]) \/ IsZero(d[1])

ShouldUploadNoLocalZero(filename, environment) ==
  LET d == diffDates(filename, environment, environment)
  IN Before(d[2], d[1]) \/ IsZero(d[2])

ShouldUpload(filename, environment) ==
  LET d == diffDates(filename, environment, environment)
  IN Before(d[2], d[1]) \/ IsZero(d[2]) \/ IsZero(d[1])

ShouldRemove(filename, environment) ==
  LET d == diffDates(filename, environment, environment)
  IN Before(d[2], d[1]) \/ IsZero(d[1])

\* a Set that would replace the whole remote entry of the file
SetRemoteReplacesFile(rem, filename, environment, value) ==
  MapPut(rem, filename, MapPut(EmptyMap, environment, value))

(* ------------------- fileManifest: mutation --------------------------- *)
\* remote once Set has recorded the value (lines 235-238)
SetRemote(rem, filename, environment, value) ==
  MapPut(rem, filename, MapPut(MapMap(rem, filename), environment, value))

SetWritesOnlyWhenEmpty(st, rem, filename, environment) ==
  {<<filename, env, rem[filename][env]>> :
     env \in {x \in DOMAIN rem[filename] :
                StoreRead(st, filename, environment)[1] = 0 /\ x = environment}}

\* the writes Set stages (lines 241-248), rem being remote after line 238
SetWrites(st, rem, filename, environment) ==
  {<<filename, env, rem[filename][env]>> :
     env \in {x \in DOMAIN rem[filename] :
                StoreRead(st, filename, environment)[1] = 0 \/ x = environment}}

\* Get: <<version, error>>
Get(filename, environment) ==
  LET r == StoreRead(store, filename, environment)
  IN IF r[2] # "nil" /\ r[2] # "ErrorCollectionNotFound" /\ r[2] # "ErrorKeyNotFound"
     THEN <<0, r[2]>>
     ELSE <<r[1], "nil">>

\* a Set that would not reload local after the commit
SetBodyNoReload(filename, environment, value) ==
  /\ phase = "ready"
  /\ pc[environment] = "idle"
  /\ nops < MaxOps
  /\ nops' = nops + 1
  /\ remote' = SetRemote(remote, filename, environment, value)
  /\ \E ok \in BOOLEAN :
       IF ok
       THEN /\ store' = BatchCommit(store, SetWrites(store, remote', filename, environment))
            /\ local' = local
            /\ ret' = [op |-> "Set", f |-> filename, e |-> environment,
                       v |-> value, err |-> FALSE]
            /\ fresh' = [fresh EXCEPT ![filename][environment] = value]
       ELSE /\ ret' = [op |-> "Set", f |-> filename, e |-> environment,
                       v |-> value, err |-> TRUE]
            /\ fresh' = [fresh EXCEPT ![filename][environment] = 0]
            /\ UNCHANGED <<store, local>>
  /\ UNCHANGED <<phase, queried, groupErr, stat, pc, cur>>
  /\ UNCHANGED <<cvars, xvars>>

\* the body of Set, which runs with manifest.mutex held
SetBody(filename, environment, value) ==
  /\ phase = "ready"
  /\ pc[environment] = "idle"
  /\ nops < MaxOps
  /\ nops' = nops + 1
  /\ remote' = SetRemote(remote, filename, environment, value)
  /\ \E ok \in BOOLEAN :
       IF ok
       THEN /\ store' = BatchCommit(store, SetWrites(store, remote', filename, environment))
            /\ local' = StoreDump(store')
            /\ ret' = [op |-> "Set", f |-> filename, e |-> environment,
                       v |-> value, err |-> FALSE]
            /\ fresh' = [fresh EXCEPT ![filename][environment] = value]
       ELSE /\ ret' = [op |-> "Set", f |-> filename, e |-> environment,
                       v |-> value, err |-> TRUE]
            /\ fresh' = [fresh EXCEPT ![filename][environment] = 0]
            /\ UNCHANGED <<store, local>>
  /\ UNCHANGED <<phase, queried, groupErr, stat, pc, cur>>
  /\ UNCHANGED <<cvars, xvars>>

\* Set, called by the pipeline worker of environment
Set(filename, environment, value) ==
  /\ SetBody(filename, environment, value)
  /\ UNCHANGED pre

\* Delete up to line 261: store.Delete, outside the mutex
DeleteStore(filename, environment) ==
  /\ phase = "ready"
  /\ pc[environment] = "idle"
  /\ nops < MaxOps
  /\ nops' = nops + 1
  /\ fresh' = [fresh EXCEPT ![filename][environment] = 0]
  /\ \E ok \in BOOLEAN :
       IF ok
       THEN /\ store' = StoreDelete(store, filename, environment)
            /\ pc' = [pc EXCEPT ![environment] = "deleting"]
            /\ cur' = [cur EXCEPT ![environment] = filename]
            /\ UNCHANGED ret
       ELSE /\ ret' = [op |-> "Delete", f |-> filename, e |-> environment,
                       v |-> 0, err |-> TRUE]
            /\ UNCHANGED <<store, pc, cur>>
  /\ UNCHANGED <<local, remote, phase, queried, groupErr, stat, pre>>
  /\ UNCHANGED <<cvars, xvars>>

\* Delete from line 263: with manifest.mutex held
DeleteLocked(environment) ==
  /\ pc[environment] = "deleting"
  /\ LET filename == cur[environment]
     IN /\ remote' = IF filename \in DOMAIN remote
                     THEN [remote EXCEPT ![filename] = MapDel(remote[filename], environment)]
                     ELSE remote
        /\ local' = StoreDump(store)
        /\ ret' = [op |-> "Delete", f |-> filename, e |-> environment,
                   v |-> 0, err |-> FALSE]
        /\ fresh' = [fresh EXCEPT ![filename][environment] = 0]
  /\ pc' = [pc EXCEPT ![environment] = "idle"]
  /\ cur' = [cur EXCEPT ![environment] = ""]
  /\ UNCHANGED <<store, phase, queried, groupErr, stat, pre, nops>>
  /\ UNCHANGED <<cvars, xvars>>

\* the manifests newFileManifest can return: every listing succeeded, the
\* batch of backfillLocal was committed and prune deleted without error
Init ==
  /\ \E rich \in Files :
       \E s0 \in PartialMaps({rich}, PartialMaps(Clients, Times)),
          ls \in [Clients -> PartialMaps({rich}, Times)] :
         /\ remote = RemoteOf(ls)
         /\ store = BatchCommit(s0, BackfillWrites(s0, remote))
  /\ local = StoreDump(store)
  /\ phase = "ready"
  /\ queried = Clients
  /\ groupErr = ""
  /\ stat = EmptyMap
  /\ pc = [w \in Clients |-> "idle"]
  /\ cur = [w \in Clients |-> ""]
  /\ ret = NoRet
  /\ pre = [store |-> EmptyMap, local |-> EmptyMap, remote |-> EmptyMap]
  /\ fresh = NoFresh
  /\ nops = 0
  /\ NoCommand

Next ==
  \/ \E f \in Files, e \in Clients, v \in SetValues : Set(f, e, v)
  \/ \E f \in Files, e \in Clients : DeleteStore(f, e)
  \/ \E e \in Clients : DeleteLocked(e)

Spec == Init /\ [][Next]_vars

\* Set alone, the manifest as it was when Set was called kept in pre
SetRecorded(filename, environment, value) ==
  /\ SetBody(filename, environment, value)
  /\ pre' = Snapshot

NextSet == \E f \in Files, e \in Clients, v \in SetValues : SetRecorded(f, e, v)

SpecSet == Init /\ [][NextSet]_vars

(* ------------------- env: newEnv and validate ------------------------- *)
\* A string is the sequence of its characters; a store domain is written in
\* chunks (labels, dots and the suffix), a directory as the name of a path.
Digits == {"0", "1", "2", "3", "4", "5", "6", "7", "8", "9"}
Str0 == <<>>
LiveStr == <<"l", "i", "v", "e">>
ShopifySuffix == <<"myshopify.com">>
MaxInt64Str == <<"9","2","2","3","3","7","2","0","3","6","8","5","4","7","7","5","8","0","7">>
MinInt64Str == <<"9","2","2","3","3","7","2","0","3","6","8","5","4","7","7","5","8","0","8">>

DigitVal(c) ==
  CASE c = "0" -> 0 [] c = "1" -> 1 [] c = "2" -> 2 [] c = "3" -> 3 [] c = "4" -> 4
    [] c = "5" -> 5 [] c = "6" -> 6 [] c = "7" -> 7 [] c = "8" -> 8 [] OTHER -> 9

\* unicode.ToLower on the letters used here
ToLowerChar(c) ==
  CASE c = "L" -> "l" [] c = "I" -> "i" [] c = "V" -> "v" [] c = "E" -> "e"
    [] OTHER -> c

ToLower(str) == [i \in 1..Len(str) |-> ToLowerChar(str[i])]

RECURSIVE TrimLeft(_)
TrimLeft(str) ==
  IF str # <<>> /\ Head(str) = " " THEN TrimLeft(Tail(str)) ELSE str

RECURSIVE TrimRight(_)
TrimRight(str) ==
  IF str # <<>> /\ str[Len(str)] = " "
  THEN TrimRight(SubSeq(str, 1, Len(str) - 1)) ELSE str

TrimSpace(str) == TrimRight(TrimLeft(str))

HasSuffix(str, suffix) ==
  /\ Len(str) >= Len(suffix)
  /\ SubSeq(str, Len(str) - Len(suffix) + 1, Len(str)) = suffix

RECURSIVE StripZeros(_)
StripZeros(ds) ==
  IF ds # <<>> /\ Head(ds) = "0" THEN StripZeros(Tail(ds)) ELSE ds

\* ds <= limit for two digit strings of the same length
RECURSIVE DigitsLeq(_, _)
DigitsLeq(ds, limit) ==
  \/ ds = <<>>
  \/ DigitVal(Head(ds)) < DigitVal(Head(limit))
  \/ DigitVal(Head(ds)) = DigitVal(Head(limit)) /\ DigitsLeq(Tail(ds), Tail(limit))

\* strconv.ParseInt(str, 10, 64) returns a nil error
ParseIntOK(str) ==
  LET signed == str # <<>> /\ Head(str) \in {"+", "-"}
      ds == IF signed THEN Tail(str) ELSE str
      limit == IF signed /\ Head(str) = "-" THEN MinInt64Str ELSE MaxInt64Str
      sig == StripZeros(ds)
  IN /\ ds # <<>>
     /\ \A k \in 1..Len(ds) : ds[k] \in Digits
     /\ \/ Len(sig) < Len(limit)
        \/ Len(sig) = Len(limit) /\ DigitsLeq(sig, limit)

\* os.Stat of a directory name: "err", "dir" or "file"; os.Stat follows a
\* symbolic link, so it never reports the link itself
Stat(path) ==
  CASE path \in {"cwd", "proj", "link"} -> "dir"
    [] path = "afile" -> "file"
    [] OTHER -> "err"

\* mergo.Merge(dst, src): the empty fields of dst take src's value
Merge(dst, src) ==
  [k \in DOMAIN dst |-> IF dst[k] = Str0 /\ k \in DOMAIN src THEN src[k] ELSE dst[k]]

RECURSIVE MergeAll(_, _)
MergeAll(dst, srcs) ==
  IF srcs = <<>> THEN dst ELSE MergeAll(Merge(dst, Head(srcs)), Tail(srcs))

\* env.Default: Directory is os.Getwd()
Default == [ThemeID |-> Str0, Domain |-> Str0, Password |-> Str0, Directory |-> <<"cwd">>]

\* the configuration newEnv validates
newEnv(initial, overrides) ==
  Merge(Merge(MergeAll([ThemeID |-> Str0, Domain |-> Str0, Password |-> Str0,
                        Directory |-> Str0], overrides), initial), Default)

validateNoPassword(env) ==
  LET themeID == ToLower(TrimSpace(env.ThemeID))
  IN (IF themeID # Str0 /\ themeID # LiveStr /\ ~ParseIntOK(themeID)
      THEN <<"invalid theme_id">> ELSE <<>>)
     \o (IF Len(env.Domain) = 0 THEN <<"missing store domain">>
         ELSE IF ~HasSuffix(env.Domain, ShopifySuffix)
         THEN <<"invalid store domain must end in '.myshopify.com'">> ELSE <<>>)
     \o (IF Stat(env.Directory[1]) = "err" THEN <<"invalid project directory">>
         ELSE IF Stat(env.Directory[1]) # "dir"
         THEN <<"Directory config is not a directory">> ELSE <<>>)

\* Env.validate: the messages collected in errors, in order; the error
\* returned is nil iff there is none
validate(env) ==
  LET themeID == ToLower(TrimSpace(env.ThemeID))
  IN (IF themeID # Str0 /\ themeID # LiveStr /\ ~ParseIntOK(themeID)
      THEN <<"invalid theme_id">> ELSE <<>>)
     \o (IF Len(env.Domain) = 0 THEN <<"missing store domain">>
         ELSE IF ~HasSuffix(env.Domain, ShopifySuffix)
         THEN <<"invalid store domain must end in '.myshopify.com'">> ELSE <<>>)
     \o (IF Len(env.Password) = 0 THEN <<"missing password">> ELSE <<>>)
     \o (IF Stat(env.Directory[1]) = "err" THEN <<"invalid project directory">>
         ELSE IF Stat(env.Directory[1]) # "dir"
         THEN <<"Directory config is not a directory">> ELSE <<>>)

\* the configurations a run may be given
ThemeIDs ==
  { Str0, <<" ", "L", "i", "v", "E", " ">>, <<"4", "2">>, <<" ", "0", "7">>,
    <<"4", "x">>, <<"-">>, <<"l", "i", "v", "e", "2">>,
    <<"9","2","2","3","3","7","2","0","3","6","8","5","4","7","7","5","8","0","8">> }
Domains ==
  { Str0, <<"shop", ".", "myshopify.com">>, <<"evil", "myshopify.com">>,
    <<"shop", ".", "example.com">>, <<"myshopify.com", ".", "evil">> }
Passwords == { Str0, <<"p", "w">> }
Directories == { Str0, <<"proj">>, <<"link">>, <<"afile">>, <<"nodir">>, <<"badlink">> }
\* no override, or a password given as a flag
Overrides == { <<>>, <<[Password |-> <<"p", "w">>]>> }
Envs == [ThemeID : ThemeIDs, Domain : Domains, Password : Passwords, Directory : Directories]

(* ------------------- the replace command ------------------------------ *)
\* the asset keys of a theme
Assets == {"a", "b", "c"}
\* the keys the theme of an environment and its directory may hold
ThemeAssets(e) == IF e = "dev" THEN Assets ELSE {"a", "b"}
ArgLists == UNION {[1..n -> Assets] : n \in 0..MaxArgs}
Range(seq) == {seq[i] : i \in 1..Len(seq)}
BagAdd(b, x) ==
  [y \in (DOMAIN b) \cup {x} |-> IF y \in DOMAIN b THEN b[y] + (IF y = x THEN 1 ELSE 0) ELSE 1]

\* the manifest is not part of a run of these commands
NoManifest ==
  /\ store = EmptyMap /\ local = EmptyMap /\ remote = EmptyMap
  /\ phase = "none" /\ queried = {} /\ groupErr = "" /\ stat = EmptyMap
  /\ pc = PerEnv("idle") /\ cur = PerEnv("") /\ ret = NoRet
  /\ pre = [store |-> EmptyMap, local |-> EmptyMap, remote |-> EmptyMap]
  /\ fresh = NoFresh /\ nops = 0

\* initializeConfig loading one environment: newEnv and its validate
LoadEnv(e, initial, overrides) ==
  /\ main = "config"
  /\ envErr = <<>>
  /\ e \notin loaded
  /\ cfg' = [name |-> e, initial |-> initial, overrides |-> overrides]
  /\ envErr' = validate(newEnv(initial, overrides))
  /\ loaded' = IF envErr' = <<>> THEN loaded \cup {e} ELSE loaded
  /\ UNCHANGED <<args, main, wg, gpc, seen, assetsActions, jobQueue, worker, job,
                 sent, processed>>
  /\ UNCHANGED <<mvars, uvars, xvars>>

\* RunE, lines 75-77: initializeConfig returned an error
RunEConfigError ==
  /\ main = "config"
  /\ envErr # <<>>
  /\ main' = "failed"
  /\ UNCHANGED <<args, cfg, envErr, loaded, wg, gpc, seen, assetsActions, jobQueue,
                 worker, job, sent, processed>>
  /\ UNCHANGED <<mvars, uvars, xvars>>

\* RunE, line 75: initializeConfig returned nil; a is RunE's args
RunEConfigured(a) ==
  /\ main = "config"
  /\ envErr = <<>>
  /\ loaded = Clients
  /\ main' = "spawn"
  /\ args' = a
  /\ cfg' = NoCfg
  /\ UNCHANGED <<envErr, loaded, wg, gpc, seen, assetsActions, jobQueue, worker, job,
                 sent, processed>>
  /\ UNCHANGED <<mvars, uvars, xvars>>

\* RunE, lines 80-83: wg.Add(1); go replace(client, args, &wg)
RunEGo(e) ==
  /\ main = "spawn"
  /\ gpc[e] = "none"
  /\ wg' = wg + 1
  /\ gpc' = [gpc EXCEPT ![e] = "start"]
  /\ UNCHANGED <<args, cfg, envErr, loaded, main, seen, assetsActions, jobQueue,
                 worker, job, sent, processed>>
  /\ UNCHANGED <<mvars, uvars, xvars>>

RunEWaitNoBarrier ==
  /\ main = "spawn"
  /\ \A e \in Clients : gpc[e] # "none"
  /\ main' = "returned"
  /\ UNCHANGED <<args, cfg, envErr, loaded, wg, gpc, seen, assetsActions, jobQueue,
                 worker, job, sent, processed>>
  /\ UNCHANGED <<mvars, uvars, xvars>>

\* RunE, lines 84-85: wg.Wait(); return nil
RunEWait ==
  /\ main = "spawn"
  /\ \A e \in Clients : gpc[e] # "none"
  /\ wg = 0
  /\ main' = "returned"
  /\ UNCHANGED <<args, cfg, envErr, loaded, wg, gpc, seen, assetsActions, jobQueue,
                 worker, job, sent, processed>>
  /\ UNCHANGED <<mvars, uvars, xvars>>

\* client.Process(wg): makes the job queue and starts the worker that drains it
Process(e) ==
  /\ gpc[e] = "start"
  /\ jobQueue' = [jobQueue EXCEPT ![e] = "open"]
  /\ worker' = [worker EXCEPT ![e] = "ready"]
  /\ gpc' = [gpc EXCEPT ![e] = "collect"]
  /\ UNCHANGED <<args, cfg, envErr, loaded, main, wg, seen, assetsActions, job,
                 sent, processed>>
  /\ UNCHANGED <<mvars, uvars, xvars>>

ReplaceAllActionsRemovalWins(R, L) ==
  [f \in R \cup L |-> IF f \in R THEN "Remove" ELSE "Upload"]

\* assetsActions of a replace without filenames, lines 100-111: R the keys
\* AssetList returned, L the keys LocalAssets returned
ReplaceAllActions(R, L) ==
  [f \in R \cup L |-> IF f \in L THEN "Upload" ELSE "Remove"]

\* assetsActions of a replace with filenames once the loop of lines 113-120
\* ends: status tells what LocalAsset answered for each filename
NamedActions(status) ==
  [f \in {g \in DOMAIN status : status[g] = "valid"} |-> "Upload"]

\* a replace that would return on a failed AssetList without closing jobQueue
replaceAllLeavesOpen(e, R, L, failing) ==
  /\ gpc[e] = "collect"
  /\ Len(args) = 0
  /\ CASE failing = "AssetList" ->
            /\ seen' = [seen EXCEPT ![e] = [NoSeen EXCEPT !.failed = failing]]
            /\ jobQueue' = jobQueue
            /\ gpc' = [gpc EXCEPT ![e] = "done"]
            /\ UNCHANGED assetsActions
       [] failing = "LocalAssets" ->
            /\ seen' = [seen EXCEPT ![e] = [NoSeen EXCEPT !.remote = R, !.failed = failing]]
            /\ jobQueue' = [jobQueue EXCEPT ![e] = "closed"]
            /\ gpc' = [gpc EXCEPT ![e] = "done"]
            /\ UNCHANGED assetsActions
       [] OTHER ->
            /\ seen' = [seen EXCEPT ![e] = [NoSeen EXCEPT !.remote = R, !.local = L]]
            /\ assetsActions' = [assetsActions EXCEPT ![e] = ReplaceAllActions(R, L)]
            /\ gpc' = [gpc EXCEPT ![e] = "send"]
            /\ UNCHANGED jobQueue
  /\ UNCHANGED <<args, cfg, envErr, loaded, main, wg, worker, job, sent, processed>>
  /\ UNCHANGED <<mvars, uvars, xvars>>

\* replace, lines 94-111, without filenames; failing names the call that
\* returns an error, if any.  The deferred close(jobQueue) runs on return.
replaceAll(e, R, L, failing) ==
  /\ gpc[e] = "collect"
  /\ Len(args) = 0
  /\ CASE failing = "AssetList" ->
            /\ seen' = [seen EXCEPT ![e] = [NoSeen EXCEPT !.failed = failing]]
            /\ jobQueue' = [jobQueue EXCEPT ![e] = "closed"]
            /\ gpc' = [gpc EXCEPT ![e] = "done"]
            /\ UNCHANGED assetsActions
       [] failing = "LocalAssets" ->
            /\ seen' = [seen EXCEPT ![e] = [NoSeen EXCEPT !.remote = R, !.failed = failing]]
            /\ jobQueue' = [jobQueue EXCEPT ![e] = "closed"]
            /\ gpc' = [gpc EXCEPT ![e] = "done"]
            /\ UNCHANGED assetsActions
       [] OTHER ->
            /\ seen' = [seen EXCEPT ![e] = [NoSeen EXCEPT !.remote = R, !.local = L]]
            /\ assetsActions' = [assetsActions EXCEPT ![e] = ReplaceAllActions(R, L)]
            /\ gpc' = [gpc EXCEPT ![e] = "send"]
            /\ UNCHANGED jobQueue
  /\ UNCHANGED <<args, cfg, envErr, loaded, main, wg, worker, job, sent, processed>>
  /\ UNCHANGED <<mvars, uvars, xvars>>

\* replace, lines 112-121, with filenames: status is what client.LocalAsset
\* answers for each: "error", or an asset that is "valid" or "invalid"
replaceNamed(e, status) ==
  /\ gpc[e] = "collect"
  /\ Len(args) > 0
  /\ IF \E f \in DOMAIN status : status[f] = "error"
     THEN /\ seen' = [seen EXCEPT ![e] = [NoSeen EXCEPT !.status = status,
                                                        !.failed = "LocalAsset"]]
          /\ jobQueue' = [jobQueue EXCEPT ![e] = "closed"]
          /\ gpc' = [gpc EXCEPT ![e] = "done"]
          /\ UNCHANGED assetsActions
     ELSE /\ seen' = [seen EXCEPT ![e] = [NoSeen EXCEPT !.status = status]]
          /\ assetsActions' = [assetsActions EXCEPT ![e] = NamedActions(status)]
          /\ gpc' = [gpc EXCEPT ![e] = "send"]
          /\ UNCHANGED jobQueue
  /\ UNCHANGED <<args, cfg, envErr, loaded, main, wg, worker, job, sent, processed>>
  /\ UNCHANGED <<mvars, uvars, xvars>>

Event(e, f) == <<assetsActions[e][f], f>>
\* the entries of assetsActions the loop of line 122 has not reached yet
ToSend(e) == {f \in DOMAIN assetsActions[e] : Event(e, f) \notin DOMAIN sent[e]}

\* replace, line 123: jobQueue <- event; the channel is unbuffered, so the
\* send completes when the worker receives
replaceSend(e, f) ==
  /\ gpc[e] = "send"
  /\ f \in ToSend(e)
  /\ worker[e] = "ready"
  /\ sent' = [sent EXCEPT ![e] = BagAdd(sent[e], Event(e, f))]
  /\ job' = [job EXCEPT ![e] = <<Event(e, f)>>]
  /\ worker' = [worker EXCEPT ![e] = "busy"]
  /\ UNCHANGED <<args, cfg, envErr, loaded, main, wg, gpc, seen, assetsActions, jobQueue,
                 processed>>
  /\ UNCHANGED <<mvars, uvars, xvars>>

\* replace, line 125: return nil, and the deferred close(jobQueue)
replaceReturn(e) ==
  /\ gpc[e] = "send"
  /\ ToSend(e) = {}
  /\ jobQueue' = [jobQueue EXCEPT ![e] = "closed"]
  /\ gpc' = [gpc EXCEPT ![e] = "done"]
  /\ UNCHANGED <<args, cfg, envErr, loaded, main, wg, seen, assetsActions, worker, job,
                 sent, processed>>
  /\ UNCHANGED <<mvars, uvars, xvars>>

\* the worker of Process performs the event it received
workerPerform(e) ==
  /\ worker[e] = "busy"
  /\ processed' = [processed EXCEPT ![e] = BagAdd(processed[e], job[e][1])]
  /\ job' = [job EXCEPT ![e] = <<>>]
  /\ worker' = [worker EXCEPT ![e] = "ready"]
  /\ UNCHANGED <<args, cfg, envErr, loaded, main, wg, gpc, seen, assetsActions, jobQueue,
                 sent>>
  /\ UNCHANGED <<mvars, uvars, xvars>>

\* the worker of Process finds the queue closed: wg.Done()
workerExit(e) ==
  /\ worker[e] = "ready"
  /\ jobQueue[e] = "closed"
  /\ wg' = wg - 1
  /\ worker' = [worker EXCEPT ![e] = "exited"]
  /\ UNCHANGED <<args, cfg, envErr, loaded, main, gpc, seen, assetsActions, jobQueue,
                 job, sent, processed>>
  /\ UNCHANGED <<mvars, uvars, xvars>>

InitReplace ==
  /\ NoManifest
  /\ args = <<>>
  /\ cfg = NoCfg
  /\ envErr = <<>>
  /\ loaded = {}
  /\ main = "config"
  /\ wg = 0
  /\ gpc = PerEnv("none")
  /\ seen = PerEnv(NoSeen)
  /\ assetsActions = PerEnv(EmptyMap)
  /\ jobQueue = PerEnv("nil")
  /\ worker = PerEnv("none")
  /\ job = PerEnv(<<>>)
  /\ sent = PerEnv(EmptyBag)
  /\ processed = PerEnv(EmptyBag)
  /\ NoUpload
  /\ NoOthers

NextReplace ==
  \/ \E e \in Clients, initial \in Envs, overrides \in Overrides :
       LoadEnv(e, initial, overrides)
  \/ RunEConfigError
  \/ \E a \in ArgLists : RunEConfigured(a)
  \/ \E e \in Clients : RunEGo(e)
  \/ RunEWait
  \/ \E e \in Clients : Process(e)
  \/ \E e \in Clients : \E R \in SUBSET ThemeAssets(e), L \in SUBSET ThemeAssets(e),
        failing \in {"none", "AssetList", "LocalAssets"} : replaceAll(e, R, L, failing)
  \/ \E e \in Clients, status \in [Range(args) -> {"valid", "invalid", "error"}] :
       replaceNamed(e, status)
  \/ \E e \in Clients, f \in Assets : replaceSend(e, f)
  \/ \E e \in Clients : replaceReturn(e)
  \/ \E e \in Clients : workerPerform(e)
  \/ \E e \in Clients : workerExit(e)

SpecReplace == InitReplace /\ [][NextReplace]_vars

\* a run of replace from the point where initializeConfig has returned nil
InitReplaceLive ==
  /\ NoManifest
  /\ args \in ArgLists
  /\ cfg = NoCfg
  /\ envErr = <<>>
  /\ loaded = Clients
  /\ main = "spawn"
  /\ wg = 0
  /\ gpc = PerEnv("none")
  /\ seen = PerEnv(NoSeen)
  /\ assetsActions = PerEnv(EmptyMap)
  /\ jobQueue = PerEnv("nil")
  /\ worker = PerEnv("none")
  /\ job = PerEnv(<<>>)
  /\ sent = PerEnv(EmptyBag)
  /\ processed = PerEnv(EmptyBag)
  /\ NoUpload
  /\ NoOthers

\* the goroutines of that run: RunE, replace(e) and the worker of Process(e)
RunESteps == (\E e \in Clients : RunEGo(e)) \/ RunEWait

replaceSteps(e) ==
  \/ Process(e)
  \/ \E R \in SUBSET ThemeAssets(e), L \in SUBSET ThemeAssets(e),
        failing \in {"none", "AssetList", "LocalAssets"} : replaceAll(e, R, L, failing)
  \/ \E status \in [Range(args) -> {"valid", "invalid", "error"}] : replaceNamed(e, status)
  \/ \E f \in Assets : replaceSend(e, f)
  \/ replaceReturn(e)

workerSteps(e) == workerPerform(e) \/ workerExit(e)

NextReplaceLive ==
  \/ RunESteps
  \/ \E e \in Clients : replaceSteps(e)
  \/ \E e \in Clients : workerSteps(e)

\* the Go scheduler does not stop while some goroutine can take a step
SpecReplaceLive ==
  /\ InitReplaceLive
  /\ [][NextReplaceLive]_vars
  /\ WF_vars(NextReplaceLive)

(* ------------------- the upload command ------------------------------- *)
settingsDataKey == "config/settings_data.json"
\* the files of the project directory an upload may name
UploadAssets == {"a", "b", settingsDataKey}
UploadArgLists == UNION {[1..n -> UploadAssets] : n \in 0..MaxArgs}
BagDel(b, x) ==
  [y \in {z \in DOMAIN b : z # x \/ b[z] > 1} |-> IF y = x THEN b[y] - 1 ELSE b[y]]
BagSize(b) == IF DOMAIN b = {} THEN 0 ELSE
  LET RECURSIVE sum(_)
      sum(D) == IF D = {} THEN 0
                ELSE LET x == CHOOSE y \in D : TRUE IN b[x] + sum(D \ {x})
  IN sum(DOMAIN b)
\* how many times f occurs in the list
Occurrences(seq, f) == Cardinality({i \in 1..Len(seq) : seq[i] = f})
\* the first filename of the list LocalAsset fails on
FirstError(seq, status) ==
  seq[CHOOSE i \in 1..Len(seq) :
        /\ status[seq[i]] = "error"
        /\ \A j \in 1..(i - 1) : status[seq[j]] # "error"]

\* forEachClient: wg.Add(1); go upload(client, args, &wg)
forEachClientGo(e) ==
  /\ main = "spawn"
  /\ gpc[e] = "none"
  /\ wg' = wg + 1
  /\ gpc' = [gpc EXCEPT ![e] = "start"]
  /\ UNCHANGED <<args, cfg, envErr, loaded, main, seen, assetsActions, jobQueue,
                 worker, job, sent, processed, uvars>>
  /\ UNCHANGED <<mvars, xvars>>

\* upload, lines 157-160, in an environment whose configuration is read-only
uploadReadOnly(e) ==
  /\ gpc[e] = "start"
  /\ seen' = [seen EXCEPT ![e] = [NoSeen EXCEPT !.failed = "ReadOnly"]]
  /\ logged' = [logged EXCEPT ![e] = @ \cup {<<"ReadOnly">>}]
  /\ wg' = wg - 1
  /\ gpc' = [gpc EXCEPT ![e] = "done"]
  /\ UNCHANGED <<args, cfg, envErr, loaded, main, assetsActions, jobQueue,
                 worker, job, sent, processed, pending, updated>>
  /\ UNCHANGED <<mvars, xvars>>

\* the loop of lines 182-188: one performUpload per asset read, but for
\* settingsDataKey
Handed(assets) == [f \in (DOMAIN assets) \ {settingsDataKey} |-> assets[f]]

\* upload without filenames, lines 165-170 and 182-188: L the keys
\* LocalAssets returned, unless it failed.  The deferred wg.Done() runs on return.
uploadAll(e, L, failed) ==
  /\ gpc[e] = "start"
  /\ Len(args) = 0
  /\ IF failed
     THEN /\ seen' = [seen EXCEPT ![e] = [NoSeen EXCEPT !.failed = "LocalAssets"]]
          /\ logged' = [logged EXCEPT ![e] = @ \cup {<<"LocalAssets">>}]
          /\ wg' = wg - 1
          /\ UNCHANGED pending
     ELSE /\ seen' = [seen EXCEPT ![e] = [NoSeen EXCEPT !.local = L]]
          /\ pending' = [pending EXCEPT ![e] = Handed([f \in L |-> 1])]
          /\ wg' = wg + BagSize(pending'[e]) - 1
          /\ UNCHANGED logged
  /\ gpc' = [gpc EXCEPT ![e] = "done"]
  /\ UNCHANGED <<args, cfg, envErr, loaded, main, assetsActions, jobQueue,
                 worker, job, sent, processed, updated>>
  /\ UNCHANGED <<mvars, xvars>>

\* upload with filenames, lines 171-180 and 182-188: status is what
\* client.LocalAsset answers for each filename, "ok" or "error"
uploadNamed(e, status) ==
  /\ gpc[e] = "start"
  /\ Len(args) > 0
  /\ IF \E f \in DOMAIN status : status[f] = "error"
     THEN /\ seen' = [seen EXCEPT ![e] = [NoSeen EXCEPT !.status = status,
                                                        !.failed = "LocalAsset"]]
          /\ logged' = [logged EXCEPT ![e] = @ \cup {<<"LocalAsset", FirstError(args, status)>>}]
          /\ wg' = wg - 1
          /\ UNCHANGED pending
     ELSE /\ seen' = [seen EXCEPT ![e] = [NoSeen EXCEPT !.status = status]]
          /\ pending' = [pending EXCEPT ![e] =
                           Handed([f \in Range(args) |-> Occurrences(args, f)])]
          /\ wg' = wg + BagSize(pending'[e]) - 1
          /\ UNCHANGED logged
  /\ gpc' = [gpc EXCEPT ![e] = "done"]
  /\ UNCHANGED <<args, cfg, envErr, loaded, main, assetsActions, jobQueue,
                 worker, job, sent, processed, updated>>
  /\ UNCHANGED <<mvars, xvars>>

\* performUpload, lines 191-204: ok tells whether UpdateAsset returned nil
performUpload(e, f, ok) ==
  /\ f \in DOMAIN pending[e]
  /\ pending' = [pending EXCEPT ![e] = BagDel(@, f)]
  /\ updated' = [updated EXCEPT ![e] = BagAdd(@, <<f, IF ok THEN "ok" ELSE "failed">>)]
  /\ logged' = [logged EXCEPT ![e] = IF ok THEN @ ELSE @ \cup {<<"UpdateAsset", f>>}]
  /\ wg' = wg - 1
  /\ UNCHANGED <<args, cfg, envErr, loaded, main, gpc, seen, assetsActions, jobQueue,
                 worker, job, sent, processed>>
  /\ UNCHANGED <<mvars, xvars>>

\* forEachClient: wg.Wait() after the handlers' goroutines were started
forEachClientWait ==
  /\ main = "spawn"
  /\ \A e \in Clients : gpc[e] # "none"
  /\ wg = 0
  /\ main' = "callbacks"
  /\ UNCHANGED <<args, cfg, envErr, loaded, wg, gpc, seen, assetsActions, jobQueue,
                 worker, job, sent, processed, uvars>>
  /\ UNCHANGED <<mvars, xvars>>

\* uploadSettingsData, lines 206-231, called by forEachClient for each client
\* after the wait: readable tells whether LocalAsset(settingsDataKey) succeeds
uploadSettingsData(e, readable) ==
  /\ main = "callbacks"
  /\ gpc[e] = "done"
  /\ gpc' = [gpc EXCEPT ![e] = "called"]
  /\ IF seen[e].failed # "ReadOnly" /\ (Len(args) = 0 \/ settingsDataKey \in Range(args))
     THEN IF readable
          THEN /\ wg' = wg + 1
               /\ pending' = [pending EXCEPT ![e] = BagAdd(@, settingsDataKey)]
               /\ UNCHANGED logged
          ELSE /\ logged' = [logged EXCEPT ![e] = @ \cup {<<"LocalAsset", settingsDataKey>>}]
               /\ UNCHANGED <<wg, pending>>
     ELSE UNCHANGED <<wg, pending, logged>>
  /\ UNCHANGED <<args, cfg, envErr, loaded, main, seen, assetsActions, jobQueue,
                 worker, job, sent, processed, updated>>
  /\ UNCHANGED <<mvars, xvars>>

\* forEachClient: the last wg.Wait() and return nil
forEachClientReturn ==
  /\ main = "callbacks"
  /\ \A e \in Clients : gpc[e] = "called"
  /\ wg = 0
  /\ main' = "returned"
  /\ UNCHANGED <<args, cfg, envErr, loaded, wg, gpc, seen, assetsActions, jobQueue,
                 worker, job, sent, processed, uvars>>
  /\ UNCHANGED <<mvars, xvars>>

\* forEachClient has built the theme clients of a valid configuration
InitUpload ==
  /\ NoManifest
  /\ args \in UploadArgLists
  /\ cfg = NoCfg
  /\ envErr = <<>>
  /\ loaded = Clients
  /\ main = "spawn"
  /\ wg = 0
  /\ gpc = PerEnv("none")
  /\ seen = PerEnv(NoSeen)
  /\ assetsActions = PerEnv(EmptyMap)
  /\ jobQueue = PerEnv("nil")
  /\ worker = PerEnv("none")
  /\ job = PerEnv(<<>>)
  /\ sent = PerEnv(EmptyBag)
  /\ processed = PerEnv(EmptyBag)
  /\ NoUpload
  /\ NoOthers

NextUpload ==
  \/ \E e \in Clients : forEachClientGo(e)
  \/ \E e \in Clients : uploadReadOnly(e)
  \/ \E e \in Clients, L \in SUBSET UploadAssets, failed \in BOOLEAN : uploadAll(e, L, failed)
  \/ \E e \in Clients, status \in [Range(args) -> {"ok", "error"}] : uploadNamed(e, status)
  \/ \E e \in Clients, f \in UploadAssets, ok \in BOOLEAN : performUpload(e, f, ok)
  \/ forEachClientWait
  \/ \E e \in Clients, readable \in BOOLEAN : uploadSettingsData(e, readable)
  \/ forEachClientReturn

SpecUpload == InitUpload /\ [][NextUpload]_vars

(* ------------------- fileManifest: FetchableFiles --------------------- *)
\* the characters of the filenames and of the requests used below
Chars(name) ==
  CASE name = "a.css" -> <<"a", ".", "c", "s", "s">>
    [] name = "b.css" -> <<"b", ".", "c", "s", "s">>
    [] name = "t/a.css" -> <<"t", "/", "a", ".", "c", "s", "s">>
    [] name = "c.js" -> <<"c", ".", "j", "s">>
    [] name = "*.css" -> <<"*", ".", "c", "s", "s">>
    [] name = "a.*" -> <<"a", ".", "*">>
    [] name = "t/*" -> <<"t", "/", "*">>
    [] name = "?.css" -> <<"?", ".", "c", "s", "s">>
    [] OTHER -> <<>>

\* strings.Contains(name, "*")
ContainsStar(name) == \E i \in 1..Len(Chars(name)) : Chars(name)[i] = "*"

\* filepath.Match on the character sequences: '*' matches any sequence of
\* non-separator characters, '?' one non-separator character
RECURSIVE MatchChars(_, _)
MatchChars(pat, str) ==
  IF pat = <<>> THEN str = <<>>
  ELSE IF Head(pat) = "*"
  THEN \/ MatchChars(Tail(pat), str)
       \/ str # <<>> /\ Head(str) # "/" /\ MatchChars(pat, Tail(str))
  ELSE IF Head(pat) = "?"
  THEN str # <<>> /\ Head(str) # "/" /\ MatchChars(Tail(pat), Tail(str))
  ELSE str # <<>> /\ Head(str) = Head(pat) /\ MatchChars(Tail(pat), Tail(str))

Match(pattern, name) == MatchChars(Chars(pattern), Chars(name))

\* FetchableFiles(filenames, env): the bag of the names appended to
\* fetchableFilenames (the order of a map iteration is not fixed)
FetchableFiles(filenames, rem) ==
  IF Len(filenames) <= 0
  THEN [assetName \in DOMAIN rem |-> 1]
  ELSE LET literals == {i \in 1..Len(filenames) : ~ContainsStar(filenames[i])}
           wildCards == {i \in 1..Len(filenames) : ContainsStar(filenames[i])}
           asLiteral(n) == Cardinality({i \in literals : filenames[i] = n})
           asMatch(n) == IF n \in DOMAIN rem
                         THEN Cardinality({i \in wildCards : Match(filenames[i], n)})
                         ELSE 0
           names == {filenames[i] : i \in literals} \cup
                    {n \in DOMAIN rem : asMatch(n) > 0}
       IN [n \in names |-> asLiteral(n) + asMatch(n)]

\* the filenames the remote listing may hold and the entries a request may have
FetchNames == {"a.css", "b.css", "t/a.css"}
Requests == {"a.css", "c.js", "*.css", "a.*", "t/*", "?.css"}
RequestLists == UNION {[1..n -> Requests] : n \in 0..MaxArgs}

\* a call of FetchableFiles
FetchableFilesCall(filenames, env) ==
  /\ phase = "ready"
  /\ out = NoOut
  /\ out' = [op |-> "FetchableFiles", filenames |-> filenames, env |-> env,
             result |-> FetchableFiles(filenames, remote)]
  /\ UNCHANGED <<mvars, cvars, fvars, lvars, rvars>>

\* a manifest whose remote listing is known
InitFetch ==
  /\ \E ls \in [Clients -> PartialMaps(FetchNames, {1})] : remote = RemoteOf(ls)
  /\ store = EmptyMap
  /\ local = EmptyMap
  /\ phase = "ready"
  /\ queried = Clients
  /\ groupErr = ""
  /\ stat = EmptyMap
  /\ pc = [w \in Clients |-> "idle"]
  /\ cur = [w \in Clients |-> ""]
  /\ ret = NoRet
  /\ pre = [store |-> EmptyMap, local |-> EmptyMap, remote |-> EmptyMap]
  /\ fresh = NoFresh
  /\ nops = 0
  /\ NoCommand

NextFetch ==
  \E filenames \in RequestLists, env \in Clients : FetchableFilesCall(filenames, env)

SpecFetch == InitFetch /\ [][NextFetch]_vars

(* ------------------- fileManifest: Diff -------------------------------- *)
\* fmtTime: the text of a time between brackets
fmtTime(t) == <<"[", t, "]">>

DiffCreatedAnyAction(actions, dstEnv, srcEnv) ==
  LET loc(f) == diffDates(f, dstEnv, srcEnv)[1]
      rem(f) == diffDates(f, dstEnv, srcEnv)[2]
  IN [Removed |-> {<<f, fmtTime(loc(f))>> :
                     f \in {g \in DOMAIN actions : ~IsZero(loc(g)) /\ IsZero(rem(g))}},
      Created |-> {<<f, fmtTime(rem(f))>> :
                     f \in {g \in DOMAIN actions : IsZero(loc(g)) /\ ~IsZero(rem(g))}},
      Updated |-> {<<f, fmtTime(loc(f)), fmtTime(rem(f))>> :
                     f \in {g \in DOMAIN actions : ~IsZero(loc(g)) /\ Before(loc(g), rem(g))}}]

\* Diff: the entries of the three lists of the themeDiff, actions being a
\* map filename -> event type
Diff(actions, dstEnv, srcEnv) ==
  LET loc(f) == diffDates(f, dstEnv, srcEnv)[1]
      rem(f) == diffDates(f, dstEnv, srcEnv)[2]
  IN [Removed |-> {<<f, fmtTime(loc(f))>> :
                     f \in {g \in DOMAIN actions : ~IsZero(loc(g)) /\ IsZero(rem(g))}},
      Created |-> {<<f, fmtTime(rem(f))>> :
                     f \in {g \in DOMAIN actions :
                              IsZero(loc(g)) /\ ~IsZero(rem(g)) /\ actions[g] = "Remove"}},
      Updated |-> {<<f, fmtTime(loc(f)), fmtTime(rem(f))>> :
                     f \in {g \in DOMAIN actions : ~IsZero(loc(g)) /\ Before(loc(g), rem(g))}}]

EventTypes == {"Update", "Remove"}
\* the entries of one file: none, or one environment with its token
OneEnvMaps == {m \in PartialMaps(Clients, SetValues) : Cardinality(DOMAIN m) <= 1}

\* a call of Diff
DiffCall(actions, dstEnv, srcEnv) ==
  /\ phase = "ready"
  /\ out = NoOut
  /\ out' = [op |-> "Diff", actions |-> actions, dstEnv |-> dstEnv, srcEnv |-> srcEnv,
             result |-> Diff(actions, dstEnv, srcEnv)]
  /\ UNCHANGED <<mvars, cvars, fvars, lvars, rvars>>

\* a manifest in use: local mirrors the store
InitDiff ==
  /\ store \in PartialMaps(Files, OneEnvMaps)
  /\ local = StoreDump(store)
  /\ remote \in PartialMaps(Files, OneEnvMaps)
  /\ phase = "ready"
  /\ queried = Clients
  /\ groupErr = ""
  /\ stat = EmptyMap
  /\ pc = [w \in Clients |-> "idle"]
  /\ cur = [w \in Clients |-> ""]
  /\ ret = NoRet
  /\ pre = [store |-> EmptyMap, local |-> EmptyMap, remote |-> EmptyMap]
  /\ fresh = NoFresh
  /\ nops = 0
  /\ NoCommand

NextDiff ==
  \E actions \in PartialMaps(Files, EventTypes), dstEnv \in Clients, srcEnv \in Clients :
    DiffCall(actions, dstEnv, srcEnv)

SpecDiff == InitDiff /\ [][NextDiff]_vars

(* ------------------- fileManifest: concurrent flows ------------------- *)
\* Each environment has one flow of control (its pipeline worker) calling
\* the manifest; here an operation is a sequence of steps, one per access to
\* the store, to the maps or to the mutex.  pc[e] names the statement flow e
\* executes next.
flowFrame == <<queried, groupErr, stat, cur, pre, fresh, lvars, rvars>>

\* the flows that are ranging over manifest.remote in FetchableFiles
Ranging == {x \in Clients : pc[x] = "FetchableFiles:range"}
\* a write to manifest.remote while other flows range over it
MarkRaced(c, writer) ==
  [x \in Clients |-> IF x # writer /\ x \in Ranging THEN [c[x] EXCEPT !.raced = TRUE] ELSE c[x]]

\* Set, line 232: manifest.mutex.Lock()
SetLock(filename, e, value) ==
  /\ phase = "ready" /\ pc[e] = "idle" /\ nops < MaxOps
  /\ mutex = ""
  /\ mutex' = e
  /\ nops' = nops + 1
  /\ call' = [call EXCEPT ![e] = [op |-> "Set", f |-> filename, v |-> value, raced |-> FALSE]]
  /\ pc' = [pc EXCEPT ![e] = "Set:record"]
  /\ justRet' = NoJustRet
  /\ UNCHANGED <<store, local, remote, phase, ret, flowFrame, cvars, qvars>>

\* Set, lines 235-252: the write to remote, the batch and its commit; a
\* failed commit returns (the deferred Unlock runs)
SetWrite(e) ==
  /\ phase = "ready" /\ pc[e] = "Set:record"
  /\ remote' = SetRemote(remote, call[e].f, e, call[e].v)
  /\ \E ok \in BOOLEAN :
       IF ok
       THEN /\ store' = BatchCommit(store, SetWrites(store, remote', call[e].f, e))
            /\ pc' = [pc EXCEPT ![e] = "Set:dump"]
            /\ call' = MarkRaced(call, e)
            /\ justRet' = NoJustRet
            /\ UNCHANGED <<mutex, ret>>
       ELSE /\ pc' = [pc EXCEPT ![e] = "idle"]
            /\ call' = [MarkRaced(call, e) EXCEPT ![e] = NoCall]
            /\ mutex' = ""
            /\ ret' = [op |-> "Set", f |-> call[e].f, e |-> e, v |-> call[e].v, err |-> TRUE]
            /\ justRet' = [e |-> e, op |-> "Set", err |-> TRUE]
            /\ UNCHANGED store
  /\ UNCHANGED <<local, phase, nops, flowFrame, cvars, qvars>>

\* Set, line 254: manifest.local, err = manifest.store.Dump()
SetDump(e) ==
  /\ phase = "ready" /\ pc[e] = "Set:dump"
  /\ local' = StoreDump(store)
  /\ pc' = [pc EXCEPT ![e] = "Set:return"]
  /\ justRet' = NoJustRet
  /\ UNCHANGED <<store, remote, phase, ret, nops, mutex, call, flowFrame, cvars, qvars>>

\* Set, line 255: return, and the deferred manifest.mutex.Unlock()
SetReturn(e) ==
  /\ phase = "ready" /\ pc[e] = "Set:return"
  /\ mutex' = ""
  /\ pc' = [pc EXCEPT ![e] = "idle"]
  /\ ret' = [op |-> "Set", f |-> call[e].f, e |-> e, v |-> call[e].v, err |-> FALSE]
  /\ call' = [call EXCEPT ![e] = NoCall]
  /\ justRet' = [e |-> e, op |-> "Set", err |-> FALSE]
  /\ UNCHANGED <<store, local, remote, phase, nops, flowFrame, cvars, qvars>>

\* Delete, lines 259-261: manifest.store.Delete, before the mutex is taken
DeleteStoreCall(filename, e) ==
  /\ phase = "ready" /\ pc[e] = "idle" /\ nops < MaxOps
  /\ nops' = nops + 1
  /\ \E ok \in BOOLEAN :
       IF ok
       THEN /\ store' = StoreDelete(store, filename, e)
            /\ call' = [call EXCEPT ![e] = [op |-> "Delete", f |-> filename, v |-> 0,
                                            raced |-> FALSE]]
            /\ pc' = [pc EXCEPT ![e] = "Delete:lock"]
            /\ justRet' = NoJustRet
            /\ UNCHANGED ret
       ELSE /\ ret' = [op |-> "Delete", f |-> filename, e |-> e, v |-> 0, err |-> TRUE]
            /\ justRet' = [e |-> e, op |-> "Delete", err |-> TRUE]
            /\ UNCHANGED <<store, call, pc>>
  /\ UNCHANGED <<local, remote, phase, mutex, flowFrame, cvars, qvars>>

\* Delete, line 263: manifest.mutex.Lock()
DeleteLock(e) ==
  /\ phase = "ready" /\ pc[e] = "Delete:lock"
  /\ mutex = ""
  /\ mutex' = e
  /\ pc' = [pc EXCEPT ![e] = "Delete:remote"]
  /\ justRet' = NoJustRet
  /\ UNCHANGED <<store, local, remote, phase, ret, nops, call, flowFrame, cvars, qvars>>

\* Delete, lines 265-270: the delete from remote and the reload of local
DeleteWrite(e) ==
  /\ phase = "ready" /\ pc[e] = "Delete:remote"
  /\ remote' = IF call[e].f \in DOMAIN remote
               THEN [remote EXCEPT ![call[e].f] = MapDel(remote[call[e].f], e)]
               ELSE remote
  /\ local' = StoreDump(store)
  /\ call' = IF call[e].f \in DOMAIN remote THEN MarkRaced(call, e) ELSE call
  /\ pc' = [pc EXCEPT ![e] = "Delete:return"]
  /\ justRet' = NoJustRet
  /\ UNCHANGED <<store, phase, ret, nops, mutex, flowFrame, cvars, qvars>>

\* Delete, line 271: return, and the deferred manifest.mutex.Unlock()
DeleteReturn(e) ==
  /\ phase = "ready" /\ pc[e] = "Delete:return"
  /\ mutex' = ""
  /\ pc' = [pc EXCEPT ![e] = "idle"]
  /\ ret' = [op |-> "Delete", f |-> call[e].f, e |-> e, v |-> 0, err |-> FALSE]
  /\ call' = [call EXCEPT ![e] = NoCall]
  /\ justRet' = [e |-> e, op |-> "Delete", err |-> FALSE]
  /\ UNCHANGED <<store, local, remote, phase, nops, flowFrame, cvars, qvars>>

\* diffDates, line 141: manifest.mutex.Lock(), called by one of the Should checks
diffDatesLock(filename, e) ==
  /\ phase = "ready" /\ pc[e] = "idle" /\ nops < MaxOps
  /\ mutex = ""
  /\ mutex' = e
  /\ nops' = nops + 1
  /\ call' = [call EXCEPT ![e] = [op |-> "diffDates", f |-> filename, v |-> 0,
                                  raced |-> FALSE]]
  /\ pc' = [pc EXCEPT ![e] = "diffDates:read"]
  /\ justRet' = NoJustRet
  /\ UNCHANGED <<store, local, remote, phase, ret, flowFrame, cvars, qvars>>

\* diffDates, lines 144-150: the reads of local and remote, the return and
\* the deferred Unlock
diffDatesRead(e) ==
  /\ phase = "ready" /\ pc[e] = "diffDates:read"
  /\ out' = [op |-> "diffDates", filename |-> call[e].f, env |-> e,
             result |-> diffDates(call[e].f, e, e)]
  /\ mutex' = ""
  /\ pc' = [pc EXCEPT ![e] = "idle"]
  /\ call' = [call EXCEPT ![e] = NoCall]
  /\ justRet' = [e |-> e, op |-> "diffDates", err |-> FALSE]
  /\ UNCHANGED <<store, local, remote, phase, ret, nops, flowFrame, cvars>>

\* FetchableFiles without filenames, line 182: the range over manifest.remote
\* starts; no mutex is taken
FetchableFilesRange(e) ==
  /\ phase = "ready" /\ pc[e] = "idle" /\ nops < MaxOps
  /\ nops' = nops + 1
  /\ call' = [call EXCEPT ![e] = [op |-> "FetchableFiles", f |-> "", v |-> 0,
                                  raced |-> FALSE]]
  /\ pc' = [pc EXCEPT ![e] = "FetchableFiles:range"]
  /\ justRet' = NoJustRet
  /\ UNCHANGED <<store, local, remote, phase, ret, mutex, flowFrame, cvars, qvars>>

\* FetchableFiles, lines 182-206: the range ends and the names are returned.
\* If another flow wrote to remote meanwhile, the Go runtime may stop the
\* program (concurrent map iteration and map write) or the range may yield
\* any part of the keys: keys is what the range yielded.
FetchableFilesReturn(e, keys, fatal) ==
  /\ phase = "ready" /\ pc[e] = "FetchableFiles:range"
  /\ IF call[e].raced
     THEN keys \subseteq Files
     ELSE keys = DOMAIN remote /\ ~fatal
  /\ IF fatal
     THEN /\ phase' = "crashed"
          /\ UNCHANGED <<out, pc, call>>
          /\ justRet' = NoJustRet
     ELSE /\ out' = [op |-> "FetchableFiles", filenames |-> <<>>, env |-> e,
                     result |-> [n \in keys |-> 1]]
          /\ pc' = [pc EXCEPT ![e] = "idle"]
          /\ call' = [call EXCEPT ![e] = NoCall]
          /\ justRet' = [e |-> e, op |-> "FetchableFiles", err |-> FALSE]
          /\ UNCHANGED phase
  /\ UNCHANGED <<store, local, remote, ret, nops, mutex, flowFrame, cvars>>

\* the manifests newFileManifest can return, no operation started
InitFlows == Init

NextFlows ==
  \/ \E f \in Files, e \in Clients, v \in SetValues : SetLock(f, e, v)
  \/ \E e \in Clients : SetWrite(e)
  \/ \E e \in Clients : SetDump(e)
  \/ \E e \in Clients : SetReturn(e)
  \/ \E f \in Files, e \in Clients : DeleteStoreCall(f, e)
  \/ \E e \in Clients : DeleteLock(e)
  \/ \E e \in Clients : DeleteWrite(e)
  \/ \E e \in Clients : DeleteReturn(e)
  \/ \E f \in Files, e \in Clients : diffDatesLock(f, e)
  \/ \E e \in Clients : diffDatesRead(e)
  \/ \E e \in Clients : FetchableFilesRange(e)
  \/ \E e \in Clients, keys \in SUBSET Files, fatal \in BOOLEAN :
       FetchableFilesReturn(e, keys, fatal)

SpecFlows == InitFlows /\ [][NextFlows]_vars

(* ------------------- Replace: removeAndUpload ------------------------- *)
\* the assets channel carries at most MaxAssets assets
MaxAssets == 3
AssetLists == UNION {[1..n -> Assets] : n \in 0..MaxAssets}
others == <<mvars, cvars, qvars, fvars, lvars>>

\* the producer of the assets channel (the goroutine of assetList, lines
\* 34-40, or client.AssetList) sends an asset and removeAndUpload receives
\* it, line 46 with more = true: the channel is unbuffered
removeAndUploadReceive ==
  /\ rpc = "receive"
  /\ assetsTodo # <<>>
  /\ asset' = Head(assetsTodo)
  /\ assetsTodo' = Tail(assetsTodo)
  /\ received' = Append(received, Head(assetsTodo))
  /\ rpc' = "removal"
  /\ UNCHANGED <<assetsClosed, assetEvents, eventsClosed, others>>

\* the producer closes the assets channel once every asset is sent, line 39
assetListClose ==
  /\ assetsTodo = <<>>
  /\ ~assetsClosed
  /\ rpc # "none"
  /\ assetsClosed' = TRUE
  /\ UNCHANGED <<assetsTodo, rpc, asset, received, assetEvents, eventsClosed, others>>

removeAndUploadSendsUploadFirst ==
  /\ rpc = "removal"
  /\ assetEvents' = Append(assetEvents, <<"Upload", asset>>)
  /\ rpc' = "upload"
  /\ UNCHANGED <<assetsTodo, assetsClosed, asset, received, eventsClosed, others>>

\* removeAndUpload, line 48: assetEvents <- NewRemovalEvent(asset)
removeAndUploadRemoval ==
  /\ rpc = "removal"
  /\ assetEvents' = Append(assetEvents, <<"Remove", asset>>)
  /\ rpc' = "upload"
  /\ UNCHANGED <<assetsTodo, assetsClosed, asset, received, eventsClosed, others>>

\* removeAndUpload, line 49: assetEvents <- NewUploadEvent(asset)
removeAndUploadUpload ==
  /\ rpc = "upload"
  /\ assetEvents' = Append(assetEvents, <<"Upload", asset>>)
  /\ rpc' = "receive"
  /\ UNCHANGED <<assetsTodo, assetsClosed, asset, received, eventsClosed, others>>

\* removeAndUpload, lines 46 and 50-52: the receive reports more = false,
\* close(assetEvents) and return
removeAndUploadClose ==
  /\ rpc = "receive"
  /\ assetsClosed
  /\ eventsClosed' = TRUE
  /\ rpc' = "returned"
  /\ UNCHANGED <<assetsTodo, assetsClosed, asset, received, assetEvents, others>>

\* Replace, lines 23-24: the assets channel exists and removeAndUpload starts
InitRemoveAndUpload ==
  /\ NoManifest
  /\ NoRun
  /\ NoQuery /\ NoFlows /\ completed = <<>>
  /\ assetsTodo \in AssetLists
  /\ assetsClosed = FALSE
  /\ rpc = "receive"
  /\ asset = ""
  /\ received = <<>>
  /\ assetEvents = <<>>
  /\ eventsClosed = FALSE

NextRemoveAndUpload ==
  \/ removeAndUploadReceive
  \/ assetListClose
  \/ removeAndUploadRemoval
  \/ removeAndUploadUpload
  \/ removeAndUploadClose

SpecRemoveAndUpload == InitRemoveAndUpload /\ [][NextRemoveAndUpload]_vars

(* ------------------- claims about the manifest ------------------------ *)
LocalToken(f, e) == MapStr(MapMap(local, f), e)
RemoteToken(f, e) == MapStr(MapMap(remote, f), e)
\* the token is the text of a timestamp
Parses(t) == t >= 1
\* token t stands for an older version than token u: an absent or unparsable
\* token is older than every timestamp, and no token is older than it
Older(t, u) == IF Parses(t) THEN Parses(u) /\ t < u ELSE Parses(u)

\* C1: once Set(f, e, v) has returned nil and no other Set or Delete on (f, e)
\* has run since, Get(f, e) returns v and a nil error.
C1_SetThenGet ==
  \A f \in Files, e \in Clients :
    fresh[f][e] # 0 => Get(f, e) = <<fresh[f][e], "nil">>

\* a value set for (f, e) is still the answer after the other pipeline's
\* worker completed an operation on the same file
C1_Witness ==
  \E f \in Files, e \in Clients :
    /\ fresh[f][e] # 0
    /\ ret.f = f /\ ret.e # e /\ ~ret.err
    /\ ret.op \in {"Set", "Delete"}

\* C2: after Delete(f, e) has returned nil, Get(f, e) returns the empty value
\* with a nil error and (f, e) is in neither remote nor local.
C2_DeleteThenGetEmpty ==
  (ret.op = "Delete" /\ ~ret.err) =>
    /\ Get(ret.f, ret.e) = <<0, "nil">>
    /\ ret.e \notin DOMAIN MapMap(remote, ret.f)
    /\ ret.e \notin DOMAIN MapMap(local, ret.f)

\* C3: with L and R the local and remote tokens of (f, e), NeedsDownloading
\* iff L is older than R or L is zero; ShouldUpload iff R is older than L or
\* R is zero or L is zero; ShouldRemove iff R is older than L or L is zero.
C3_TruthTable ==
  \A f \in Files, e \in Clients :
    LET l == LocalToken(f, e)
        r == RemoteToken(f, e)
    IN /\ NeedsDownloading(f, e) <=> (Older(l, r) \/ ~Parses(l))
       /\ ShouldUpload(f, e) <=> (Older(r, l) \/ ~Parses(r) \/ ~Parses(l))
       /\ ShouldRemove(f, e) <=> (Older(r, l) \/ ~Parses(l))

\* the asymmetric row: the ledger holds an unparsable text, the remote a
\* timestamp, and the file is to be uploaded, removed and downloaded
C3_Witness ==
  \E f \in Files, e \in Clients :
    /\ LocalToken(f, e) = Junk
    /\ Parses(RemoteToken(f, e))
    /\ ShouldUpload(f, e) /\ ShouldRemove(f, e) /\ NeedsDownloading(f, e)


(* ------------------- claims about construction ------------------------ *)
Returned(op) == ret.op = op /\ ~ret.err
\* some configured environment has a regular file f in its directory
OnDisk(f) == f \in DOMAIN stat /\ stat[f] # {}
InLedger(m, f, e) == f \in DOMAIN m /\ e \in DOMAIN m[f]

\* C9 as claimed: an entry of the ledger survives prune iff the remote
\* snapshot reports its filename or a configured environment has the file on
\* disk.
C9_SurvivesIffReportedOrOnDisk ==
  Returned("prune") =>
    \A f \in Files, e \in StoredEnvs :
      InLedger(pre.local, f, e) =>
        (InLedger(local, f, e) <=> (f \in DOMAIN remote \/ OnDisk(f)))

\* C9 amended: an entry of the ledger survives prune, with its token, in the
\* store and in local, iff its environment is configured and the remote
\* snapshot reports its filename or a configured environment has the file on
\* disk; a file neither reported nor on disk loses its whole collection.
C9_SurvivesIffConfiguredAndKnown ==
  Returned("prune") =>
    /\ local = store
    /\ \A f \in Files, e \in StoredEnvs :
         InLedger(pre.local, f, e) =>
           /\ InLedger(local, f, e) <=>
                (e \in Clients /\ (f \in DOMAIN remote \/ OnDisk(f)))
           /\ InLedger(local, f, e) => local[f][e] = pre.local[f][e]
    /\ \A f \in DOMAIN pre.local :
         f \in DOMAIN local <=> (f \in DOMAIN remote \/ OnDisk(f))

\* prune kept an entry because of a file on disk, dropped the collection of
\* a file neither reported nor on disk, or dropped the entry of an
\* environment no longer configured: two of the three at once
C9_Witness ==
  /\ Returned("prune")
  /\ \E f \in DOMAIN pre.local, e \in Clients :
       /\ f \notin DOMAIN remote /\ OnDisk(f)
       /\ InLedger(pre.local, f, e) /\ InLedger(local, f, e)
  /\ \/ \E f \in DOMAIN pre.local :
          f \notin DOMAIN remote /\ ~OnDisk(f) /\ pre.local[f] # EmptyMap
          /\ f \notin DOMAIN store
     \/ \E f \in DOMAIN remote :
          InLedger(pre.local, f, "old") /\ ~InLedger(store, f, "old")

BagOf(events) == [ev \in events |-> 1]
NoPipeline(e) ==
  /\ gpc[e] = "none" /\ jobQueue[e] = "nil" /\ worker[e] = "none"
  /\ sent[e] = EmptyBag /\ processed[e] = EmptyBag

\* C4: a replace without filenames whose two listings succeed sends exactly
\* one Remove event per filename listed remotely but not locally and exactly
\* one Upload event per filename listed locally, and no other event.
C4_ReplaceAllEvents ==
  \A e \in Clients :
    (Len(args) = 0 /\ gpc[e] \in {"send", "done"} /\ seen[e].failed = "") =>
      LET R == seen[e].remote
          L == seen[e].local
          expected == {<<"Remove", f>> : f \in R \ L} \cup {<<"Upload", f>> : f \in L}
      IN /\ DOMAIN sent[e] \subseteq expected
         /\ \A ev \in DOMAIN sent[e] : sent[e][ev] = 1
         /\ gpc[e] = "done" => DOMAIN sent[e] = expected

\* remote {a, b}, local {b, c}: Remove(a), Upload(b), Upload(c)
C4_Witness ==
  \E e \in Clients :
    /\ Len(args) = 0 /\ main = "spawn" /\ gpc[e] = "done"
    /\ seen[e].remote = {"a", "b"} /\ seen[e].local = {"b", "c"}
    /\ sent[e] = BagOf({<<"Remove", "a">>, <<"Upload", "b">>, <<"Upload", "c">>})

\* C5 as claimed: in a replace with filenames an Upload event is sent for
\* every named filename whose local asset is valid, whatever LocalAsset
\* answers for the other filenames.
C5_ValidNamedAlwaysUploaded ==
  \A e \in Clients :
    (Len(args) > 0 /\ gpc[e] = "done") =>
      \A f \in Range(args) :
        seen[e].status[f] = "valid" => <<"Upload", f>> \in DOMAIN sent[e]

\* C7: RunE has started a pipeline for every environment and, when it
\* returns, every event sent on a job queue has been performed by the worker
\* of that queue, which has finished.
C7_ReturnsAfterAllProcessed ==
  main = "returned" =>
    \A e \in Clients :
      /\ gpc[e] = "done" /\ jobQueue[e] = "closed"
      /\ worker[e] = "exited" /\ job[e] = <<>>
      /\ processed[e] = sent[e]

\* RunE returned after both pipelines had sent events
C7_Witness ==
  /\ main = "returned"
  /\ \A e \in Clients : sent[e] # EmptyBag /\ processed[e] = sent[e]

\* the checks the configuration under validation fails, told from its text
HasPasswordFlag(c) ==
  \E k \in 1..Len(c.overrides) : c.overrides[k].Password # Str0
FailsPassword(c) == c.initial.Password = Str0 /\ ~HasPasswordFlag(c)
FailsMissingDomain(c) == c.initial.Domain = Str0
FailsDomainSuffix(c) ==
  c.initial.Domain \in {<<"shop", ".", "example.com">>, <<"myshopify.com", ".", "evil">>}
FailsThemeID(c) ==
  c.initial.ThemeID \in {<<"4", "x">>, <<"-">>, <<"l", "i", "v", "e", "2">>}
FailsDirectory(c) ==
  c.initial.Directory \in {<<"afile">>, <<"nodir">>, <<"badlink">>}

\* C8: validation returns an error that names every failed check (password,
\* store domain, theme_id, project directory), and once initializeConfig has
\* failed RunE returns the error: no pipeline is started, no event is sent.
C8_ConfigErrorIsFatal ==
  /\ cfg # NoCfg =>
       /\ FailsPassword(cfg) => "missing password" \in Range(envErr)
       /\ FailsMissingDomain(cfg) => "missing store domain" \in Range(envErr)
       /\ FailsDomainSuffix(cfg) =>
            "invalid store domain must end in '.myshopify.com'" \in Range(envErr)
       /\ FailsThemeID(cfg) => "invalid theme_id" \in Range(envErr)
       /\ FailsDirectory(cfg) =>
            \/ "invalid project directory" \in Range(envErr)
            \/ "Directory config is not a directory" \in Range(envErr)
  /\ envErr # <<>> =>
       /\ main \in {"config", "failed"}
       /\ wg = 0
       /\ \A e \in Clients : NoPipeline(e)
  /\ main = "failed" => envErr # <<>>

\* RunE returned the error of an environment that fails four checks, after
\* another environment had been validated
C8_Witness ==
  /\ main = "failed"
  /\ loaded # {}
  /\ FailsPassword(cfg) /\ FailsDomainSuffix(cfg) /\ FailsThemeID(cfg) /\ FailsDirectory(cfg)
  /\ Len(envErr) = 4


(* ------------------- claims about the upload command ------------------ *)
\* UpdateAsset has been called for asset f of environment e
Uploaded(e, f) == \E r \in {"ok", "failed"} : <<f, r>> \in DOMAIN updated[e]

\* C6: when an upload run returns, every requested asset that could be read
\* has been uploaded, whatever failed on the other assets of its environment
\* or in the other environments.
C6_SiblingsStillUploaded ==
  main = "returned" =>
    \A e \in Clients :
      seen[e].failed # "ReadOnly" =>
        /\ \A f \in seen[e].local \ {settingsDataKey} : Uploaded(e, f)
        /\ \A f \in (DOMAIN seen[e].status) \ {settingsDataKey} :
             seen[e].status[f] = "ok" => Uploaded(e, f)


(* ------------------- claims about FetchableFiles ---------------------- *)
\* how many times the list holds entry n
CountIn(filenames, n) == Cardinality({i \in 1..Len(filenames) : filenames[i] = n})
Listed(n) == IF n \in DOMAIN out.result THEN out.result[n] ELSE 0

\* C11: without requested filenames FetchableFiles returns exactly the keys
\* of remote; with requested filenames it returns each literal name as given
\* and, once, every remote filename that some wildcard entry matches, and no
\* other name.
C11_FetchableFilesUnion ==
  out.op = "FetchableFiles" =>
    IF Len(out.filenames) = 0
    THEN out.result = [n \in DOMAIN remote |-> 1]
    ELSE \A n \in FetchNames \cup Requests :
           Listed(n) =
             (IF ContainsStar(n) THEN 0 ELSE CountIn(out.filenames, n))
             + (IF /\ n \in DOMAIN remote
                   /\ \E i \in 1..Len(out.filenames) :
                        ContainsStar(out.filenames[i]) /\ Match(out.filenames[i], n)
                THEN 1 ELSE 0)


(* ------------------- claims about Diff -------------------------------- *)
InList(list, f) == \E x \in list : x[1] = f

\* C12: Diff puts a filename of actions in Removed iff its local token of
\* srcEnv is a timestamp and its remote token of dstEnv is not; in Created
\* iff the local one is not, the remote one is and the action is a Remove; in
\* Updated iff both are and the local one is strictly older; and in at most
\* one of the three lists.
C12_DiffClassifies ==
  out.op = "Diff" =>
    \A f \in Files :
      LET L == LocalToken(f, out.srcEnv)
          R == RemoteToken(f, out.dstEnv)
          asked == f \in DOMAIN out.actions
          inRemoved == InList(out.result.Removed, f)
          inCreated == InList(out.result.Created, f)
          inUpdated == InList(out.result.Updated, f)
      IN /\ inRemoved <=> (asked /\ Parses(L) /\ ~Parses(R))
         /\ inCreated <=> (asked /\ ~Parses(L) /\ Parses(R) /\ out.actions[f] = "Remove")
         /\ inUpdated <=> (asked /\ Parses(L) /\ Older(L, R))
         /\ ~(inRemoved /\ inCreated) /\ ~(inRemoved /\ inUpdated) /\ ~(inCreated /\ inUpdated)

\* one Diff of two files with different environments as source and
\* destination: one file is Removed, the other Updated
C12_Witness ==
  /\ out.op = "Diff"
  /\ out.srcEnv # out.dstEnv
  /\ \E f \in Files, g \in Files :
       /\ InList(out.result.Removed, f)
       /\ InList(out.result.Updated, g)
       /\ out.result.Created = {}


(* ------------------- claims about concurrent flows -------------------- *)
\* C13: whenever Set or Delete has just returned without error, local equals
\* the contents of the store, whatever the other flows are doing.
C13_WriteThroughMirror ==
  (justRet.op \in {"Set", "Delete"} /\ ~justRet.err) => local = StoreDump(store)

\* the maps the next statement of flow e reads and writes
ReadsOf(e) ==
  CASE pc[e] = "diffDates:read" -> {"local", "remote"}
    [] pc[e] = "FetchableFiles:range" -> {"remote"}
    [] pc[e] = "Delete:remote" -> {"remote"}
    [] OTHER -> {}
WritesOf(e) ==
  CASE pc[e] = "Set:record" -> {"remote"}
    [] pc[e] = "Set:dump" -> {"local"}
    [] pc[e] = "Delete:remote" -> {"local"} \cup
         (IF call[e].f \in DOMAIN remote THEN {"remote"} ELSE {})
    [] OTHER -> {}

\* C14: a flow reads or writes local or remote only while it holds the
\* mutex, and no two flows are at an access of the same map of which one is
\* a write.
C14_AccessUnderMutex ==
  /\ \A e \in Clients : (ReadsOf(e) \cup WritesOf(e)) # {} => mutex = e
  /\ \A e1 \in Clients, e2 \in Clients :
       e1 # e2 => WritesOf(e1) \cap (ReadsOf(e2) \cup WritesOf(e2)) = {}


(* ------------------- claims about generateRemote ---------------------- *)
Failures == {i \in 1..Len(completed) : ~completed[i].ok}
\* generateRemote has returned
Joined == phase \notin {"new", "listing"}

\* C15: generateRemote returns only when the query of every environment has
\* finished; it returns an error iff a query failed, the error of the query
\* that failed first in completion order; a failed query adds nothing to
\* remote and a successful one adds exactly the pairs it listed.
C15_GenerateRemoteJoinsAll ==
  /\ Joined =>
       /\ {completed[i].c : i \in 1..Len(completed)} = Clients
       /\ Len(completed) = Cardinality(Clients)
       /\ (Failures # {}) <=> (phase = "failed" /\ ret.op = "generateRemote" /\ ret.err)
  /\ IF Failures = {} THEN groupErr = ""
     ELSE groupErr = completed[CHOOSE i \in Failures : \A j \in Failures : i <= j].c
  /\ \A f \in Files, e \in Clients :
         LET answers == {i \in 1..Len(completed) :
                           /\ completed[i].c = e /\ completed[i].ok
                           /\ f \in DOMAIN completed[i].assets}
         IN /\ (f \in DOMAIN remote /\ e \in DOMAIN remote[f]) <=> answers # {}
            /\ \A i \in answers : remote[f][e] = completed[i].assets[f]

\* prod's query listed a file, then dev's query failed: generateRemote
\* returned dev's error with prod's pair in remote
C15_Witness ==
  /\ phase = "failed" /\ ret.op = "generateRemote" /\ ret.err
  /\ Len(completed) = 2
  /\ completed[1] = [c |-> "prod", ok |-> TRUE, assets |-> MapPut(EmptyMap, "a.liquid", 1)]
  /\ completed[2].c = "dev" /\ ~completed[2].ok
  /\ groupErr = "dev"
  /\ remote = MapPut(EmptyMap, "a.liquid", MapPut(EmptyMap, "prod", 1))


(* ------------------- claims about removeAndUpload --------------------- *)
\* C16: the events sent are, for each asset received and in the order of
\* reception, its Removal followed by its Upload, one of each; and the event
\* queue is closed only once the asset channel is closed and both events of
\* every received asset are sent.
C16_RemovalBeforeUpload ==
  /\ Len(assetEvents) <= 2 * Len(received)
  /\ \A i \in 1..Len(assetEvents) :
       assetEvents[i] = <<IF i % 2 = 1 THEN "Remove" ELSE "Upload", received[(i + 1) \div 2]>>
  /\ rpc \in {"receive", "returned"} => Len(assetEvents) = 2 * Len(received)
  /\ rpc = "upload" => Len(assetEvents) = 2 * Len(received) - 1
  /\ eventsClosed =>
       /\ assetsClosed /\ assetsTodo = <<>>
       /\ rpc = "returned"
       /\ Len(assetEvents) = 2 * Len(received)

\* three assets, one of them twice, were received and the queue is closed
C16_Witness ==
  /\ eventsClosed
  /\ received = <<"a", "b", "a">>
  /\ assetEvents = <<<<"Remove", "a">>, <<"Upload", "a">>, <<"Remove", "b">>,
                     <<"Upload", "b">>, <<"Remove", "a">>, <<"Upload", "a">>>>

(* ------------------- the frame of Set --------------------------------- *)
\* the entry of (filename, environment) in a map of maps: <<token>>, or <<>>
\* when there is none
Entry(m, filename, environment) ==
  IF filename \in DOMAIN m /\ environment \in DOMAIN m[filename]
  THEN <<m[filename][environment]>>
  ELSE <<>>

\* Set(f, e, v) found a value stored for (f, e)
HadValue == StoreRead(pre.store, ret.f, ret.e)[1] # 0

\* C17: Set(f, e, v) sets remote[f][e] to v and changes no other entry of
\* remote; in the store it changes no entry of another filename, writes
\* (f, e) with v when it returns nil, and writes an entry (f, e') of another
\* environment, with remote[f][e'], only when no value was stored for (f, e)
\* before the call; a failed commit leaves the store as it was
C17_SetFrame ==
  ret.op = "Set" =>
    /\ Entry(remote, ret.f, ret.e) = <<ret.v>>
    /\ \A g \in Files, x \in Clients :
         <<g, x>> # <<ret.f, ret.e>> => Entry(remote, g, x) = Entry(pre.remote, g, x)
    /\ \A g \in Files \ {ret.f}, x \in StoredEnvs :
         Entry(store, g, x) = Entry(pre.store, g, x)
    /\ ~ret.err => Entry(store, ret.f, ret.e) = <<ret.v>>
    /\ ret.err => store = pre.store
    /\ \A x \in StoredEnvs \ {ret.e} :
         Entry(store, ret.f, x) =
           IF ~ret.err /\ ~HadValue /\ Entry(remote, ret.f, x) # <<>>
           THEN Entry(remote, ret.f, x)
           ELSE Entry(pre.store, ret.f, x)

\* Set returned nil having found no value for its pair, and rewrote the
\* entry of the other environment with the token remote holds for it
C17_Witness ==
  /\ ret.op = "Set" /\ ~ret.err /\ ~HadValue
  /\ \E x \in Clients \ {ret.e} :
       /\ Entry(remote, ret.f, x) # <<>>
       /\ Entry(pre.store, ret.f, x) # <<>>
       /\ Entry(pre.store, ret.f, x) # Entry(remote, ret.f, x)
       /\ Entry(store, ret.f, x) = Entry(remote, ret.f, x)
  /\ \E g \in Files \ {ret.f} : g \in DOMAIN store

(* ------------------- prune: environments ------------------------------ *)
\* the store as the first pass of the last prune left it
AfterFirstPass ==
  DeleteCollections(pre.store, PruneCollections(pre.local, pre.remote, stat))

\* no entry of an environment that is not configured remains
NoStaleEnvironment ==
  \A f \in Files, e \in StoredEnvs \ Clients :
    Entry(store, f, e) = <<>> /\ Entry(local, f, e) = <<>>

\* the second pass deleted nothing else
OnlyStaleEntriesDeleted ==
  \A f \in Files, e \in Clients : Entry(store, f, e) = Entry(AfterFirstPass, f, e)

\* the second pass ranged over the entries the first pass left
SecondPassOnReloaded ==
  PruneEntries(pre.local) = PruneEntries(StoreDump(AfterFirstPass))

\* C18: after prune returns nil no entry of an environment that is not
\* configured remains in the store or in local, the second pass deleted only
\* those entries, and it ranged over local as reloaded after the first pass
C18_PruneEnvironments ==
  (ret.op = "prune" /\ ~ret.err) =>
    /\ NoStaleEnvironment
    /\ OnlyStaleEntriesDeleted
    /\ SecondPassOnReloaded

(* ------------------- replace: termination ----------------------------- *)
\* the events replace(e) means to send were each sent once
AllSent(e) ==
  /\ ToSend(e) = {}
  /\ \A f \in DOMAIN assetsActions[e] : sent[e][Event(e, f)] = 1

\* jobQueue is closed when replace(e) has returned and not before, and a
\* replace that found no error has by then sent every event
ClosedOnReturn(e) ==
  /\ jobQueue[e] = "closed" <=> gpc[e] = "done"
  /\ (jobQueue[e] = "closed" /\ seen[e].failed = "") => AllSent(e)

\* C19: on every path through replace, a failed AssetList, LocalAssets or
\* LocalAsset included, jobQueue is closed once, when replace returns and
\* after every event it means to send was sent; the worker draining the
\* queue, every environment signals its completion and the command returns
C19_ReplaceReturns ==
  /\ [](\A e \in Clients : ClosedOnReturn(e))
  /\ [][\A e \in Clients : jobQueue[e] = "closed" => jobQueue'[e] = "closed"]_vars
  /\ <>(main = "returned" /\ \A e \in Clients : worker[e] = "exited")

\* the command returned after one environment failed early and the other
\* sent every event to its worker
C19_Witness ==
  /\ main = "returned"
  /\ \E e \in Clients : seen[e].failed # "" /\ jobQueue[e] = "closed"
  /\ \E e \in Clients :
       /\ seen[e].failed = "" /\ DOMAIN assetsActions[e] # {} /\ AllSent(e)
       /\ worker[e] = "exited"

(* ------------------- convergence after Set ---------------------------- *)
\* none of the three checks asks for an action on (f, e)
Quiet(f, e) ==
  ~ShouldUpload(f, e) /\ ~ShouldRemove(f, e) /\ ~NeedsDownloading(f, e)

\* C20: once Set(f, e, v) has returned nil with v the text of a timestamp,
\* and until another Set or Delete on (f, e), local[f][e] and remote[f][e]
\* are both v and ShouldUpload, ShouldRemove and NeedsDownloading are all
\* false for (f, e); the three checks are all false exactly when both tokens
\* are timestamps and are equal
C20_SetConverges ==
  \A f \in Files, e \in Clients :
    /\ Parses(fresh[f][e]) =>
         /\ LocalToken(f, e) = fresh[f][e]
         /\ RemoteToken(f, e) = fresh[f][e]
         /\ Quiet(f, e)
    /\ Quiet(f, e) <=>
         /\ Parses(LocalToken(f, e)) /\ Parses(RemoteToken(f, e))
         /\ LocalToken(f, e) = RemoteToken(f, e)

\* a pair just set to a timestamp asks for nothing, after the worker of the
\* other environment set the same file to a text that is no timestamp, so
\* that its own pair still asks for an upload
C20_Witness ==
  \E f \in Files, e \in Clients :
    /\ Parses(fresh[f][e]) /\ Quiet(f, e)
    /\ ret.op = "Set" /\ ret.f = f /\ ret.e # e /\ ~ret.err
    /\ ShouldUpload(f, ret.e)

=============================================================================
